---- MODULE Spec2Model ----
(***************************************************************************)
(* A model of instawow's package engine (src/instawow/manager.py): the     *)
(* Manager operations to_install/install, to_update/update and remove, the *)
(* archive handler, the trash, and the two drivers that run them: the CLI  *)
(* batch (CliManager.install_many / update_many) and the WebSocket         *)
(* connection (WsManager.poll); then the bookkeeping of a batch            *)
(* (CliManager.gather), the protocol of a connection (requests, queue,     *)
(* responses) and the reconcile command (src/instawow/cli.py).             *)
(*                                                                         *)
(* Every coroutine is cut at its awaits.  The network awaits of phase one  *)
(* (resolve, download) read no local state and are taken in one step; a    *)
(* job handed to the executor (trash, extract) is one step, and the        *)
(* coroutine's resumption after it is another where it touches the         *)
(* database.                                                               *)
(***************************************************************************)
EXTENDS Integers, FiniteSets, Sequences, TLC

VARIABLES
    db,           \* committed rows of the pkg table (with their folder rows)
    sessDeleted,  \* rows marked by Session.delete, not yet committed
    disk,         \* addon_dir: folder name -> content tag, or Absent
    trashed,      \* what send2trash moved away since the batch or the
                  \* connection began: <<folder, content>>
    mode,         \* which driver is running the operations
    ops,          \* the operations of the running batch or connection
    faults,       \* whether the trash facility and extractall may fault
    strategies,   \* the strategies callers pass to install
    batch,        \* CliManager.gather and the *_many call around it
    ws,           \* WsManager.poll: the requests, queue and responses of
                  \* one connection
    rc,           \* the reconcile command: its passes and what it printed
    collection,   \* merge_intersecting_sets: the sets given and returned
    slots,        \* CliManager.bar_positions and the bars that are open
    archive       \* PkgArchive: the member names and root_folders

\* The variables of the helpers, which no other operation changes.
utils == <<collection, slots, archive>>

vars ==
    <<db, sessDeleted, disk, trashed, mode, ops, faults, strategies, batch,
      ws, rc, collection, slots, archive>>

\* The surroundings of a run, which no operation changes.
env == <<faults, strategies>>

(***************************************************************************)
(* Bounds                                                                  *)
(***************************************************************************)
MaxOps == 2

(***************************************************************************)
(* The remote catalogue.  A release is what a resolver returns for a       *)
(* reference: the Pkg fields the engine reads, and the top-level names of  *)
(* the archive behind download_url.                                        *)
(***************************************************************************)
Folders == {"f1", "f2"}

Absent == "absent"
Pre == "pre"

Registered == {"curse", "wowi"}

Strategies == {"default", "latest"}

Releases == {"A1", "A2", "A3", "A4", "B1", "C1"}

Release == [r \in Releases |->
    CASE r = "A1" -> [origin |-> "curse", id |-> "1", slug |-> "a",
                      file_id |-> 1, version |-> "v1", namelist |-> {"f1"}]
      [] r = "A2" -> [origin |-> "curse", id |-> "1", slug |-> "a",
                      file_id |-> 2, version |-> "v1", namelist |-> {"f1", "f2"}]
      [] r = "A3" -> [origin |-> "curse", id |-> "1", slug |-> "a",
                      file_id |-> 1, version |-> "v2", namelist |-> {"f1"}]
      [] r = "A4" -> [origin |-> "curse", id |-> "1", slug |-> "a",
                      file_id |-> 3, version |-> "v3", namelist |-> {"f2"}]
      [] r = "B1" -> [origin |-> "curse", id |-> "2", slug |-> "b",
                      file_id |-> 1, version |-> "v1", namelist |-> {"f2"}]
      [] r = "C1" -> [origin |-> "wowi", id |-> "1", slug |-> "c",
                      file_id |-> 1, version |-> "v1", namelist |-> {"f2"}]]

\* The references a caller can name: a source and an id or a slug.
Refs == {<<"curse", "1">>, <<"curse", "a">>, <<"curse", "2">>,
         <<"wowi", "1">>, <<"nope", "1">>}

NoRel == "none"

Key(r) == <<Release[r].origin, Release[r].id>>

(***************************************************************************)
(* Rows.  A persisted Pkg is its release and options.strategy; its folder  *)
(* rows are the release's root folders.                                    *)
(***************************************************************************)
NoRow == [rel |-> NoRel, strategy |-> "none"]

Row(r, s) == [rel |-> r, strategy |-> s]

RowKey(row) == Key(row.rel)

\* PkgArchive.root_folders: the first path part of every archive member.
root_folders(r) == Release[r].namelist

RowFolders(row) == root_folders(row.rel)

\* What a query through the shared session sees: autoflush applies the
\* pending deletes before the SELECT.
Visible == db \ sessDeleted

\* Manager.get
Matches(row, origin, id_or_slug) ==
    /\ Release[row.rel].origin = origin
    /\ \/ Release[row.rel].id = id_or_slug
       \/ Release[row.rel].slug = id_or_slug

\* Variant: the filter has lost its id-or-slug clause.
get_any_of_origin(origin, id_or_slug) ==
    IF \E row \in Visible : Release[row.rel].origin = origin
    THEN CHOOSE row \in Visible : Release[row.rel].origin = origin
    ELSE NoRow

get(origin, id_or_slug) ==
    IF \E row \in Visible : Matches(row, origin, id_or_slug)
    THEN CHOOSE row \in Visible : Matches(row, origin, id_or_slug)
    ELSE NoRow

\* MemberDict.__missing__: what self.resolvers[origin] raises for a source
\* that is not registered.
\* Variant: a plain dict, whose missing key is a KeyError.
missing_KeyError(key) == "Exception"

missing(key) == "PkgOriginInvalid"

\* Manager.resolve: the releases the remote may answer with.
resolve(origin, id_or_slug) ==
    {r \in Releases : /\ Release[r].origin = origin
                      /\ \/ Release[r].id = id_or_slug
                         \/ Release[r].slug = id_or_slug}

OnDisk == {f \in Folders : disk[f] # Absent}


(***************************************************************************)
(* Results and exceptions (src/instawow/exceptions.py).  "Exception" is    *)
(* any exception outside the ManagerError taxonomy.                        *)
(***************************************************************************)
NoExc == [type |-> "none", new |-> NoRow, old |-> NoRow, folders |-> {}]

Raised(type) == [NoExc EXCEPT !.type = type]

PkgInstalled(new_pkg) == [NoExc EXCEPT !.type = "PkgInstalled", !.new = new_pkg]

PkgUpdated(old_pkg, new_pkg) ==
    [NoExc EXCEPT !.type = "PkgUpdated", !.old = old_pkg, !.new = new_pkg]

PkgRemoved(old_pkg) == [NoExc EXCEPT !.type = "PkgRemoved", !.old = old_pkg]

PkgConflictsWithInstalled(conflicting_pkg) ==
    [NoExc EXCEPT !.type = "PkgConflictsWithInstalled", !.old = conflicting_pkg]

PkgConflictsWithPreexisting(folders) ==
    [NoExc EXCEPT !.type = "PkgConflictsWithPreexisting", !.folders = folders]

(***************************************************************************)
(* Operations in flight.                                                   *)
(***************************************************************************)
NewOp(kind, ref, strategy, overwrite) ==
    [kind |-> kind, origin |-> ref[1], name |-> ref[2],
     strategy |-> strategy, overwrite |-> overwrite,
     pc |-> "start",
     resolved |-> FALSE, downloaded |-> FALSE,
     pkg |-> NoRel,        \* pkg / new_pkg: the resolved release
     cur |-> NoRow,        \* cur_pkg (update) or pkg (remove)
     exc |-> NoExc,        \* what the executor job raised
     outcome |-> NoExc]

InstallInputs ==
    {NewOp("install", ref, s, o) : ref \in Refs, s \in strategies, o \in BOOLEAN}

UpdateInputs == {NewOp("update", ref, "default", FALSE) : ref \in Refs}

RemoveInputs == {NewOp("remove", ref, "default", FALSE) : ref \in Refs}

Idx == 1..Len(ops)

Done(i) == ops[i].pc = "done"

AllDone == \A i \in Idx : Done(i)

Finish(i, result) == [ops EXCEPT ![i].pc = "done", ![i].outcome = result]

(***************************************************************************)
(* The session's commit.  The pkg table's primary key is (origin, id),     *)
(* (origin, slug) is unique, and a folder path belongs to one row.         *)
(***************************************************************************)
\* Variant: a schema whose folder paths are not unique.
Consistent_keys_only(rows) ==
    \A r1, r2 \in rows : r1 # r2 => RowKey(r1) # RowKey(r2)

Consistent(rows) ==
    \A r1, r2 \in rows :
        r1 # r2 => /\ RowKey(r1) # RowKey(r2)
                   /\ RowFolders(r1) \cap RowFolders(r2) = {}

Flushed(adds) == (db \ sessDeleted) \cup adds

CommitOk(adds) == Consistent(Flushed(adds)) /\ adds \cap (db \ sessDeleted) = {}

\* Session.delete of an object loaded earlier: it is marked deleted when it
\* still is the persisted row; when another row took its identity the
\* session refuses it; when the row is gone the DELETE matches nothing.
DeleteRefused(row) ==
    /\ row \notin Visible
    /\ \E other \in Visible : RowKey(other) = RowKey(row)

(***************************************************************************)
(* trash(paths): send2trash on each path in turn; it stops at the first    *)
(* path that fails (a missing path, or a fault of the trash facility).     *)
(***************************************************************************)
TrashOutcomes(paths) ==
    IF faults \/ ~(paths \subseteq OnDisk)
    THEN SUBSET (paths \cap OnDisk)
    ELSE {paths}

DiskAfterTrash(T) == [f \in Folders |-> IF f \in T THEN Absent ELSE disk[f]]

\* Variant: the folders are deleted, not moved.
TrashedAfter_deleted(T) == trashed

TrashedAfter(T) == trashed \cup {<<f, disk[f]>> : f \in T}

(***************************************************************************)
(* PkgArchive.extract                                                      *)
(***************************************************************************)
\* Variant: the overwrite flag is read the wrong way round.
extract_conflicts_inverted(r, overwrite) ==
    IF overwrite THEN root_folders(r) \cap OnDisk ELSE {}

extract_conflicts(r, overwrite) ==
    IF overwrite THEN {} ELSE root_folders(r) \cap OnDisk

DiskAfterExtract(r, W) == [f \in Folders |-> IF f \in W THEN r ELSE disk[f]]

\* extractall either writes every member or faults part-way.
ExtractOutcomes(r) == IF faults THEN SUBSET root_folders(r) ELSE {root_folders(r)}


(***************************************************************************)
(* CliManager.gather's bookkeeping while no batch call is running.         *)
(***************************************************************************)
NoBatch ==
    [many |-> "none", pc |-> "idle", coros |-> <<>>, futures |-> <<>>,
     completed |-> <<>>, bar |-> [total |-> 0, n |-> 0],
     results |-> <<>>, called |-> {}, answers |-> <<>>]

(***************************************************************************)
(* WsManager.poll before any message has arrived: no request, an empty     *)
(* consumer_queue, a consumer waiting on it, nothing sent.                 *)
(***************************************************************************)
NoConnection ==
    [requests |-> <<>>, consumer_queue |-> <<>>, consuming |-> 0, sent |-> <<>>]

(***************************************************************************)
(* The reconcile command before it is run.                                 *)
(***************************************************************************)
NoReconcile ==
    [pc |-> "idle", auto |-> FALSE, leftovers |-> {}, ran |-> <<>>,
     given |-> <<>>, selections |-> <<>>, echoed |-> <<>>]

(***************************************************************************)
(* The helpers before they are used: no collection to merge, the one free  *)
(* slot CliManager starts with and no bar open, no archive opened.         *)
(***************************************************************************)
NoCollection == [pc |-> "idle", given |-> <<>>, merged |-> <<>>]

NoSlots == [bar_positions |-> <<FALSE>>, bars |-> <<>>]

NoArchive == [pc |-> "idle", namelist |-> {}, root_folders |-> {}, folders |-> {}]

(***************************************************************************)
(* Initial state: an empty database, and an add-on directory that may      *)
(* already hold folders nobody installed through the engine.               *)
(***************************************************************************)
Init ==
    /\ db = {}
    /\ sessDeleted = {}
    /\ disk \in [Folders -> {Absent, Pre}]
    /\ trashed = {}
    /\ mode = "idle"
    /\ ops = <<>>
    /\ faults = TRUE
    /\ strategies = {"default"}
    /\ batch = NoBatch
    /\ ws = NoConnection
    /\ rc = NoReconcile
    /\ collection = NoCollection
    /\ slots = NoSlots
    /\ archive = NoArchive

\* The same, with a trash facility and archives that never fault.
InitNoFaults ==
    /\ db = {}
    /\ sessDeleted = {}
    /\ disk \in [Folders -> {Absent, Pre}]
    /\ trashed = {}
    /\ mode = "idle"
    /\ ops = <<>>
    /\ faults = FALSE
    /\ strategies = {"default"}
    /\ batch = NoBatch
    /\ ws = NoConnection
    /\ rc = NoReconcile
    /\ collection = NoCollection
    /\ slots = NoSlots
    /\ archive = NoArchive

\* An empty add-on directory, no faults, and callers that install with one
\* strategy, the default one or another.
InitStrategies ==
    /\ db = {}
    /\ sessDeleted = {}
    /\ disk = [f \in Folders |-> Absent]
    /\ trashed = {}
    /\ mode = "idle"
    /\ ops = <<>>
    /\ faults = FALSE
    /\ strategies \in {{s} : s \in Strategies}
    /\ batch = NoBatch
    /\ ws = NoConnection
    /\ rc = NoReconcile
    /\ collection = NoCollection
    /\ slots = NoSlots
    /\ archive = NoArchive

engine == <<db, sessDeleted, disk, trashed>>

(***************************************************************************)
(* The drivers.                                                            *)
(***************************************************************************)
Batches(inputs) == UNION {[1..n -> inputs] : n \in 1..MaxOps}

\* CliManager.install_many: one batch of to_install coroutines.
install_many ==
    /\ mode = "idle"
    /\ \E values \in Batches(InstallInputs) : ops' = values
    /\ mode' = "install_many"
    /\ UNCHANGED <<engine, env, batch, ws, rc, utils>>

\* CliManager.update_many
update_many ==
    /\ mode = "idle"
    /\ \E values \in Batches(UpdateInputs) : ops' = values
    /\ mode' = "update_many"
    /\ UNCHANGED <<engine, env, batch, ws, rc, utils>>

\* Manager.remove run on its own by the command line.
remove_one ==
    /\ mode = "idle"
    /\ \E v \in RemoveInputs : ops' = <<v>>
    /\ mode' = "remove"
    /\ UNCHANGED <<engine, env, batch, ws, rc, utils>>

\* WsManager.poll.receiver: a mutating request arrives; it is queued for
\* the consumer and its prepare_response is scheduled at once.
receiver ==
    /\ mode \in {"idle", "ws"}
    /\ Len(ops) < MaxOps
    /\ \E request \in InstallInputs \cup UpdateInputs \cup RemoveInputs :
           ops' = Append(ops, request)
    /\ mode' = "ws"
    /\ UNCHANGED <<engine, env, batch, ws, rc, utils>>

\* The batch has returned, or the connection is closed with nothing pending.
finished ==
    /\ mode # "idle"
    /\ AllDone
    /\ mode' = "idle"
    /\ ops' = <<>>
    /\ trashed' = {}
    /\ UNCHANGED <<db, sessDeleted, disk, env, batch, ws, rc, utils>>

\* CliManager.gather has returned when no coroutine of the batch is still
\* in its first phase; the comprehension of install_many / update_many then
\* awaits the deferred actions one after the other.  WsManager.poll.consumer
\* takes the queue in arrival order and awaits each request to its end.
InPhaseOne(i) == ops[i].pc \in {"start", "fetch"}

consumer_turn_in_order(i) ==
    \A j \in Idx : j < i => Done(j)

consumer_turn(i) ==
    /\ \A j \in Idx : j < i => Done(j)
    /\ mode \in {"install_many", "update_many"} => \A j \in Idx : ~InPhaseOne(j)

(***************************************************************************)
(* Manager.to_install, first phase.                                        *)
(***************************************************************************)
to_install_get(i) ==
    /\ ops[i].kind = "install" /\ ops[i].pc = "start"
    /\ IF get(ops[i].origin, ops[i].name) # NoRow
       THEN ops' = Finish(i, Raised("PkgAlreadyInstalled"))
       ELSE ops' = [ops EXCEPT ![i].pc = "fetch"]
    /\ UNCHANGED <<engine, mode, env, batch, ws, rc, utils>>

\* await self.resolve(...); await self._download_file(...)
to_install_fetch(i) ==
    /\ ops[i].kind = "install" /\ ops[i].pc = "fetch"
    /\ \/ /\ ops[i].origin \notin Registered
          /\ ops' = Finish(i, Raised(missing(ops[i].origin)))
       \/ /\ ops[i].origin \in Registered
          /\ \E e \in {"PkgNonexistent", "Exception"} :
                 ops' = [Finish(i, Raised(e)) EXCEPT ![i].resolved = TRUE]
       \/ /\ ops[i].origin \in Registered
          /\ \E r \in resolve(ops[i].origin, ops[i].name) :
               \/ ops' = [ops EXCEPT ![i].pc = "ready", ![i].pkg = r,
                                     ![i].resolved = TRUE, ![i].downloaded = TRUE]
               \/ ops' = [Finish(i, Raised("Exception"))
                              EXCEPT ![i].resolved = TRUE, ![i].downloaded = TRUE]
    /\ UNCHANGED <<engine, mode, env, batch, ws, rc, utils>>

(***************************************************************************)
(* Manager.to_install.install, the deferred action.                        *)
(***************************************************************************)
\* Variant: the query carries update's pkg_origin filter.
install_conflicts_other_origin(r) ==
    {row \in Visible : /\ RowFolders(row) \cap root_folders(r) # {}
                       /\ Release[row.rel].origin # Release[r].origin}

\* The PkgFolder query: the owners of any prospective folder.
install_conflicts(r) == {row \in Visible : RowFolders(row) \cap root_folders(r) # {}}

install_check(i) ==
    /\ ops[i].kind = "install" /\ ops[i].pc = "ready"
    /\ consumer_turn(i)
    /\ IF install_conflicts(ops[i].pkg) # {}
       THEN \E c \in install_conflicts(ops[i].pkg) :
                ops' = Finish(i, PkgConflictsWithInstalled(c))
       ELSE ops' = [ops EXCEPT ![i].pc = IF ops[i].overwrite THEN "trash" ELSE "extract"]
    /\ UNCHANGED <<engine, mode, env, batch, ws, rc, utils>>

\* trash(f.path for f in pkg.folders if f.path.exists()) in the executor
install_trash(i) ==
    /\ ops[i].kind = "install" /\ ops[i].pc = "trash"
    /\ LET paths == root_folders(ops[i].pkg) \cap OnDisk IN
       \E T \in TrashOutcomes(paths) :
           /\ disk' = DiskAfterTrash(T)
           /\ trashed' = TrashedAfter(T)
           /\ ops' = IF T = paths THEN [ops EXCEPT ![i].pc = "extract"]
                      ELSE Finish(i, Raised("Exception"))
    /\ UNCHANGED <<db, sessDeleted, mode, env, batch, ws, rc, utils>>

\* Variant: a fault of extractall is swallowed and the install goes on to
\* its commit.
install_extract_swallowed(i) ==
    /\ ops[i].kind = "install" /\ ops[i].pc = "extract"
    /\ LET r == ops[i].pkg
           conflicts == extract_conflicts(r, ops[i].overwrite) IN
       IF conflicts # {}
       THEN /\ ops' = Finish(i, PkgConflictsWithPreexisting(conflicts))
            /\ UNCHANGED disk
       ELSE \E W \in ExtractOutcomes(r) :
                /\ disk' = DiskAfterExtract(r, W)
                /\ ops' = [ops EXCEPT ![i].pc = "commit"]
    /\ UNCHANGED <<db, sessDeleted, trashed, mode, env, batch, ws, rc, utils>>

\* archive.extract(addon_dir, overwrite=overwrite) in the executor
install_extract(i) ==
    /\ ops[i].kind = "install" /\ ops[i].pc = "extract"
    /\ LET r == ops[i].pkg
           conflicts == extract_conflicts(r, ops[i].overwrite) IN
       IF conflicts # {}
       THEN /\ ops' = Finish(i, PkgConflictsWithPreexisting(conflicts))
            /\ UNCHANGED disk
       ELSE \E W \in ExtractOutcomes(r) :
                /\ disk' = DiskAfterExtract(r, W)
                /\ ops' = IF W = root_folders(r) THEN [ops EXCEPT ![i].pc = "commit"]
                           ELSE Finish(i, Raised("Exception"))
    /\ UNCHANGED <<db, sessDeleted, trashed, mode, env, batch, ws, rc, utils>>

\* self.db.add(pkg); self.db.commit(); return PkgInstalled(pkg)
install_commit(i) ==
    /\ ops[i].kind = "install" /\ ops[i].pc = "commit"
    /\ LET pkg == Row(ops[i].pkg, ops[i].strategy) IN
       IF CommitOk({pkg})
       THEN /\ db' = Flushed({pkg})
            /\ ops' = Finish(i, PkgInstalled(pkg))
       ELSE /\ db' = db
            /\ ops' = Finish(i, Raised("Exception"))
    /\ sessDeleted' = {}
    /\ UNCHANGED <<disk, trashed, mode, env, batch, ws, rc, utils>>


(***************************************************************************)
(* Manager.to_update, first phase.                                         *)
(***************************************************************************)
to_update_get(i) ==
    /\ ops[i].kind = "update" /\ ops[i].pc = "start"
    /\ LET cur_pkg == get(ops[i].origin, ops[i].name) IN
       IF cur_pkg = NoRow
       THEN ops' = Finish(i, Raised("PkgNotInstalled"))
       ELSE ops' = [ops EXCEPT ![i].pc = "fetch", ![i].cur = cur_pkg]
    /\ UNCHANGED <<engine, mode, env, batch, ws, rc, utils>>

\* Variant: the versions are compared.
up_to_date_by_version(cur_pkg, r) == Release[cur_pkg.rel].version = Release[r].version

\* cur_pkg.file_id == new_pkg.file_id
up_to_date(cur_pkg, r) == Release[cur_pkg.rel].file_id = Release[r].file_id

\* The strategy to_update passes to resolve: cur_pkg.options.strategy.
\* Variant: the update resolves with the default strategy.
update_strategy_default(cur_pkg) == "default"

update_strategy(cur_pkg) == cur_pkg.strategy

\* await self.resolve(..., cur_pkg.options.strategy); the file_id test;
\* await self._download_file(...)
to_update_fetch(i) ==
    /\ ops[i].kind = "update" /\ ops[i].pc = "fetch"
    /\ \/ /\ ops[i].origin \notin Registered
          /\ ops' = Finish(i, Raised(missing(ops[i].origin)))
       \/ /\ ops[i].origin \in Registered
          /\ \E e \in {"PkgNonexistent", "Exception"} :
                 ops' = [Finish(i, Raised(e))
                             EXCEPT ![i].resolved = TRUE,
                                    ![i].strategy = update_strategy(ops[i].cur)]
       \/ /\ ops[i].origin \in Registered
          /\ \E r \in resolve(ops[i].origin, ops[i].name) :
               IF up_to_date(ops[i].cur, r)
               THEN ops' = [Finish(i, Raised("PkgUpToDate"))
                                EXCEPT ![i].resolved = TRUE, ![i].pkg = r,
                                       ![i].strategy = update_strategy(ops[i].cur)]
               ELSE \/ ops' = [ops EXCEPT ![i].pc = "ready", ![i].pkg = r,
                                          ![i].strategy = update_strategy(ops[i].cur),
                                          ![i].resolved = TRUE, ![i].downloaded = TRUE]
                    \/ ops' = [Finish(i, Raised("Exception"))
                                   EXCEPT ![i].resolved = TRUE, ![i].downloaded = TRUE,
                                          ![i].pkg = r,
                                          ![i].strategy = update_strategy(ops[i].cur)]
    /\ UNCHANGED <<engine, mode, env, batch, ws, rc, utils>>

(***************************************************************************)
(* Manager.to_update.update, the deferred action.                          *)
(***************************************************************************)
\* Variant: the query has lost its pkg_origin and pkg_id filters.
update_conflicts_unfiltered(r) ==
    {row \in Visible : RowFolders(row) \cap root_folders(r) # {}}

\* The PkgFolder query: path in the new folders, pkg_origin != new_pkg.origin
\* and pkg_id != new_pkg.id.
update_conflicts(r) ==
    {row \in Visible : /\ RowFolders(row) \cap root_folders(r) # {}
                       /\ Release[row.rel].origin # Release[r].origin
                       /\ Release[row.rel].id # Release[r].id}

update_check(i) ==
    /\ ops[i].kind = "update" /\ ops[i].pc = "ready"
    /\ consumer_turn(i)
    /\ IF update_conflicts(ops[i].pkg) # {}
       THEN \E c \in update_conflicts(ops[i].pkg) :
                ops' = Finish(i, PkgConflictsWithInstalled(c))
       ELSE ops' = [ops EXCEPT ![i].pc = "trash"]
    /\ UNCHANGED <<engine, mode, env, batch, ws, rc, utils>>

\* trash(f.path for f in cur_pkg.folders) in the executor
update_trash(i) ==
    /\ ops[i].kind = "update" /\ ops[i].pc = "trash"
    /\ LET paths == RowFolders(ops[i].cur) IN
       \E T \in TrashOutcomes(paths) :
           /\ disk' = DiskAfterTrash(T)
           /\ trashed' = TrashedAfter(T)
           /\ ops' = IF T = paths THEN [ops EXCEPT ![i].pc = "delete"]
                      ELSE [ops EXCEPT ![i].pc = "finally", ![i].exc = Raised("Exception")]
    /\ UNCHANGED <<db, sessDeleted, mode, env, batch, ws, rc, utils>>

\* self.db.delete(cur_pkg), then the extraction is handed to the executor
update_delete(i) ==
    /\ ops[i].kind = "update" /\ ops[i].pc = "delete"
    /\ IF DeleteRefused(ops[i].cur)
       THEN /\ ops' = [ops EXCEPT ![i].pc = "finally", ![i].exc = Raised("Exception")]
            /\ UNCHANGED sessDeleted
       ELSE /\ ops' = [ops EXCEPT ![i].pc = "extract"]
            /\ sessDeleted' = sessDeleted \cup ({ops[i].cur} \cap db)
    /\ UNCHANGED <<db, disk, trashed, mode, env, batch, ws, rc, utils>>

\* archive.extract(parent_folder=addon_dir) in the executor: overwrite is
\* left at its default, False.
update_extract(i) ==
    /\ ops[i].kind = "update" /\ ops[i].pc = "extract"
    /\ LET r == ops[i].pkg
           conflicts == extract_conflicts(r, FALSE) IN
       IF conflicts # {}
       THEN /\ ops' = [ops EXCEPT ![i].pc = "finally",
                                  ![i].exc = PkgConflictsWithPreexisting(conflicts)]
            /\ UNCHANGED disk
       ELSE \E W \in ExtractOutcomes(r) :
                /\ disk' = DiskAfterExtract(r, W)
                /\ ops' = IF W = root_folders(r) THEN [ops EXCEPT ![i].pc = "add"]
                           ELSE [ops EXCEPT ![i].pc = "finally",
                                            ![i].exc = Raised("Exception")]
    /\ UNCHANGED <<db, sessDeleted, trashed, mode, env, batch, ws, rc, utils>>

\* self.db.add(new_pkg); finally: self.db.commit(); return PkgUpdated(...)
update_add(i) ==
    /\ ops[i].kind = "update" /\ ops[i].pc = "add"
    /\ LET new_pkg == Row(ops[i].pkg, ops[i].strategy) IN
       IF CommitOk({new_pkg})
       THEN /\ db' = Flushed({new_pkg})
            /\ ops' = Finish(i, PkgUpdated(ops[i].cur, new_pkg))
       ELSE /\ db' = db
            /\ ops' = Finish(i, Raised("Exception"))
    /\ sessDeleted' = {}
    /\ UNCHANGED <<disk, trashed, mode, env, batch, ws, rc, utils>>

\* An exception left the try block: finally: self.db.commit(), and the
\* exception goes on to the caller.
update_finally(i) ==
    /\ ops[i].kind = "update" /\ ops[i].pc = "finally"
    /\ db' = Flushed({})
    /\ sessDeleted' = {}
    /\ ops' = [Finish(i, ops[i].exc) EXCEPT ![i].exc = NoExc]
    /\ UNCHANGED <<disk, trashed, mode, env, batch, ws, rc, utils>>

(***************************************************************************)
(* Manager.remove                                                          *)
(***************************************************************************)
remove_get(i) ==
    /\ ops[i].kind = "remove" /\ ops[i].pc = "start"
    /\ LET pkg == get(ops[i].origin, ops[i].name) IN
       IF pkg = NoRow
       THEN ops' = Finish(i, Raised("PkgNotInstalled"))
       ELSE ops' = [ops EXCEPT ![i].pc = "trash", ![i].cur = pkg]
    /\ UNCHANGED <<engine, mode, env, batch, ws, rc, utils>>

\* trash(f.path for f in pkg.folders) in the executor
remove_trash(i) ==
    /\ ops[i].kind = "remove" /\ ops[i].pc = "trash"
    /\ LET paths == RowFolders(ops[i].cur) IN
       \E T \in TrashOutcomes(paths) :
           /\ disk' = DiskAfterTrash(T)
           /\ trashed' = TrashedAfter(T)
           /\ ops' = IF T = paths THEN [ops EXCEPT ![i].pc = "delete"]
                      ELSE Finish(i, Raised("Exception"))
    /\ UNCHANGED <<db, sessDeleted, mode, env, batch, ws, rc, utils>>

\* self.db.delete(pkg); self.db.commit(); return PkgRemoved(pkg)
remove_commit(i) ==
    /\ ops[i].kind = "remove" /\ ops[i].pc = "delete"
    /\ IF DeleteRefused(ops[i].cur)
       THEN /\ ops' = Finish(i, Raised("Exception"))
            /\ UNCHANGED <<db, sessDeleted>>
       ELSE /\ db' = db \ (sessDeleted \cup {ops[i].cur})
            /\ sessDeleted' = {}
            /\ ops' = Finish(i, PkgRemoved(ops[i].cur))
    /\ UNCHANGED <<disk, trashed, mode, env, batch, ws, rc, utils>>

(***************************************************************************)
(* The specification.                                                      *)
(***************************************************************************)
Next ==
    \/ install_many
    \/ update_many
    \/ remove_one
    \/ receiver
    \/ finished
    \/ \E i \in Idx : to_install_get(i)
    \/ \E i \in Idx : to_install_fetch(i)
    \/ \E i \in Idx : install_check(i)
    \/ \E i \in Idx : install_trash(i)
    \/ \E i \in Idx : install_extract(i)
    \/ \E i \in Idx : install_commit(i)
    \/ \E i \in Idx : to_update_get(i)
    \/ \E i \in Idx : to_update_fetch(i)
    \/ \E i \in Idx : update_check(i)
    \/ \E i \in Idx : update_trash(i)
    \/ \E i \in Idx : update_delete(i)
    \/ \E i \in Idx : update_extract(i)
    \/ \E i \in Idx : update_add(i)
    \/ \E i \in Idx : update_finally(i)
    \/ \E i \in Idx : remove_get(i)
    \/ \E i \in Idx : remove_trash(i)
    \/ \E i \in Idx : remove_commit(i)

Spec == Init /\ [][Next]_vars

SpecNoFaults == InitNoFaults /\ [][Next]_vars

SpecStrategies == InitStrategies /\ [][Next]_vars

TypeOK ==
    /\ db \subseteq [rel : Releases, strategy : Strategies]
    /\ sessDeleted \subseteq db
    /\ disk \in [Folders -> {Absent, Pre} \cup Releases]
    /\ mode \in {"idle", "install_many", "update_many", "remove", "ws"}
    /\ Len(ops) <= MaxOps
    /\ faults \in BOOLEAN
    /\ strategies \subseteq Strategies


(***************************************************************************)
(* CliManager.gather and the batch calls built on it (resolve_many,        *)
(* install_many, update_many), over coroutines of which only the outcome   *)
(* is kept: each works on one item of the caller's list and either         *)
(* returns a value for that item or raises.  Exceptions are those derived  *)
(* from Exception.                                                         *)
(***************************************************************************)
MaxCoros == 3

Items == {"x", "y", "z"}

\* The subclasses of ManagerError (src/instawow/exceptions.py).
ManagerErrors ==
    {"PkgAlreadyInstalled", "PkgConflictsWithInstalled",
     "PkgConflictsWithPreexisting", "PkgNonexistent",
     "PkgTemporarilyUnavailable", "PkgNotInstalled", "PkgOriginInvalid",
     "PkgUpToDate"}

\* What a coroutine of the batch may raise: a typed error, or an exception
\* outside the taxonomy.
Thrown == {"PkgNonexistent", "OSError"}

None == [type |-> "None", item |-> "None", error |-> "None"]

\* A result or an exception object made for an item.
Value(type, item) == [type |-> type, item |-> item, error |-> "None"]

\* InternalError(error=error)
InternalError(error) ==
    [type |-> "InternalError", item |-> error.item, error |-> error.type]

\* What awaiting an awaitable does: it returns a value or raises.
Returns(value) == [raised |-> FALSE, value |-> value]

Raises(error) == [raised |-> TRUE, value |-> error]

Awaitables(type, item) ==
    {Returns(Value(type, item))} \cup {Raises(Value(e, item)) : e \in Thrown}

\* A SafeFuture before it is set.
Pending == [exception |-> None, result |-> None, propagated |-> FALSE, done |-> FALSE]

\* Variant: only ManagerError is caught; any other exception leaves
\* intercept.
intercept_ManagerError_only(awaited) ==
    IF ~awaited.raised
    THEN [Pending EXCEPT !.result = awaited.value, !.done = TRUE]
    ELSE IF awaited.value.type \in ManagerErrors
         THEN [Pending EXCEPT !.exception = awaited.value, !.done = TRUE]
         ELSE [Pending EXCEPT !.propagated = TRUE]

\* Variant: the two except clauses are in the other order, so a
\* ManagerError is wrapped as well.
intercept_wraps_all(awaited) ==
    IF ~awaited.raised
    THEN [Pending EXCEPT !.result = awaited.value, !.done = TRUE]
    ELSE [Pending EXCEPT !.exception = InternalError(awaited.value), !.done = TRUE]

\* SafeFuture.intercept: the future holds the awaitable's result, or the
\* ManagerError it raised, or an InternalError around anything else.
intercept(awaited) ==
    IF ~awaited.raised
    THEN [Pending EXCEPT !.result = awaited.value, !.done = TRUE]
    ELSE IF awaited.value.type \in ManagerErrors
         THEN [Pending EXCEPT !.exception = awaited.value, !.done = TRUE]
         ELSE [Pending EXCEPT !.exception = InternalError(awaited.value),
                              !.done = TRUE]

\* SafeFuture.result: self.exception() or super().result()
SafeFuture_result(future) ==
    IF future.exception # None THEN future.exception ELSE future.result

\* Variant: the bar is set to the step, not advanced by it.
update_sets(bar, n) == [bar EXCEPT !.n = n]

\* tqdm's bar.update(n)
update(bar, n) == [bar EXCEPT !.n = @ + n]

\* sorted() on the (index, future) pairs: by index.
RECURSIVE insort(_, _)
insort(x, s) ==
    IF s = <<>> THEN <<x>>
    ELSE IF x[1] < s[1][1] THEN <<x>> \o s
         ELSE <<s[1]>> \o insort(x, Tail(s))

\* Variant: the pairs are left in their order of completion.
sorted_as_completed(s) == s

RECURSIVE sorted(_)
sorted(s) == IF s = <<>> THEN <<>> ELSE insort(s[1], sorted(Tail(s)))

\* What the coroutines of a batch call return when they do not raise:
\* resolve returns a Pkg, to_install and to_update a deferred action.
first_value(many) == IF many = "resolve_many" THEN "Pkg" ELSE "deferred"

\* What a deferred action returns when it does not raise.
second_value(many) == IF many = "install_many" THEN "PkgInstalled" ELSE "PkgUpdated"

ItemLists == UNION {[1..n -> Items] : n \in 0..MaxCoros}

\* gather is entered: coros = list(it), the bar is made with their number,
\* and one intercept task per coroutine is started.
gather ==
    /\ mode = "idle"
    /\ batch.pc = "idle"
    /\ \E many \in {"resolve_many", "install_many", "update_many"},
          values \in ItemLists :
           batch' = [NoBatch EXCEPT
                        !.many = many, !.pc = "gather", !.coros = values,
                        !.bar = [total |-> Len(values), n |-> 0],
                        !.futures = [i \in 1..Len(values) |-> Pending]]
    /\ UNCHANGED <<engine, mode, ops, env, ws, rc, utils>>

\* gather.intercept for the coroutine of index i - 1: the coroutine ends,
\* its future is set, the bar advances, and as_completed yields the pair.
gather_intercept(i) ==
    /\ batch.pc = "gather"
    /\ ~batch.futures[i].done
    /\ \E awaited \in Awaitables(first_value(batch.many), batch.coros[i]) :
           LET future == intercept(awaited) IN
           IF future.propagated
           THEN batch' = [batch EXCEPT !.pc = "raised"]
           ELSE batch' = [batch EXCEPT
                             !.futures[i] = future,
                             !.bar = update(batch.bar, 1),
                             !.completed = Append(@, <<i - 1, future>>)]
    /\ UNCHANGED <<engine, mode, ops, env, ws, rc, utils>>

\* Every pair has been yielded: gather returns the futures, sorted by
\* index.
gather_return ==
    /\ batch.pc = "gather"
    /\ Len(batch.completed) = Len(batch.coros)
    /\ batch' = [batch EXCEPT
                    !.pc = "comprehension",
                    !.results = [k \in 1..Len(batch.completed) |->
                                     sorted(batch.completed)[k][2]]]
    /\ UNCHANGED <<engine, mode, ops, env, ws, rc, utils>>

\* The comprehension of the batch call takes the next future r.  For
\* resolve_many it keeps r.result(); for install_many and update_many it
\* keeps r when r holds an exception, and otherwise awaits the deferred
\* action r.result()() through a new SafeFuture.
comprehension_next ==
    /\ batch.pc = "comprehension"
    /\ Len(batch.answers) < Len(batch.results)
    /\ LET k == Len(batch.answers) + 1
           r == batch.results[k] IN
       IF batch.many = "resolve_many" \/ r.exception # None
       THEN batch' = [batch EXCEPT !.answers = Append(@, SafeFuture_result(r))]
       ELSE \E awaited \in Awaitables(second_value(batch.many), r.result.item) :
                LET future == intercept(awaited) IN
                IF future.propagated
                THEN batch' = [batch EXCEPT !.pc = "raised",
                                            !.called = @ \cup {k}]
                ELSE batch' = [batch EXCEPT
                                  !.called = @ \cup {k},
                                  !.answers = Append(@, SafeFuture_result(future))]
    /\ UNCHANGED <<engine, mode, ops, env, ws, rc, utils>>

\* The batch call returns its list.
comprehension_return ==
    /\ batch.pc = "comprehension"
    /\ Len(batch.answers) = Len(batch.results)
    /\ batch' = [batch EXCEPT !.pc = "returned"]
    /\ UNCHANGED <<engine, mode, ops, env, ws, rc, utils>>

\* The caller has its list and the manager is idle again.
batch_over ==
    /\ batch.pc \in {"returned", "raised"}
    /\ batch' = NoBatch
    /\ UNCHANGED <<engine, mode, ops, env, ws, rc, utils>>

NextGather ==
    \/ gather
    \/ \E i \in 1..Len(batch.coros) : gather_intercept(i)
    \/ gather_return
    \/ comprehension_next
    \/ comprehension_return
    \/ batch_over

InitGather ==
    /\ db = {}
    /\ sessDeleted = {}
    /\ disk = [f \in Folders |-> Absent]
    /\ trashed = {}
    /\ mode = "idle"
    /\ ops = <<>>
    /\ faults = FALSE
    /\ strategies = {"default"}
    /\ batch = NoBatch
    /\ ws = NoConnection
    /\ rc = NoReconcile
    /\ collection = NoCollection
    /\ slots = NoSlots
    /\ archive = NoArchive

SpecGather == InitGather /\ [][NextGather]_vars

\* The event loop runs every task that can run, and every awaited request
\* ends, with a result or an exception.
SpecGatherLive == SpecGather /\ WF_vars(NextGather)


(***************************************************************************)
(* WsManager.poll (src/instawow/manager.py): one connection.  The requests *)
(* are those that parse_request accepts; what prepare_response and the     *)
(* deferred actions do is left open: they return or raise.                 *)
(***************************************************************************)
MaxRequests == 3

\* The ids clients give their requests.
Ids == {"p", "q"}

\* Request, InstallRequest, UpdateRequest, RemoveRequest
Methods == {"resolve", "install", "update", "remove"}

\* Variant: every request is put on the queue.
queued_all(method) == TRUE

\* request.__class__ in {InstallRequest, UpdateRequest, RemoveRequest}
queued(method) == method \in {"install", "update", "remove"}

\* request.__class__ in {InstallRequest, UpdateRequest}
deferred(method) == method \in {"install", "update"}

\* What request.prepare_response(self) returns when it does not raise.
prepared(method) ==
    CASE method = "resolve" -> "Pkg"
      [] method = "remove" -> "PkgRemoved"
      [] OTHER -> "deferred"

\* What the deferred action of an install or update request returns.
performed(method) == IF method = "install" THEN "PkgInstalled" ELSE "PkgUpdated"

\* The wire codes: one member for each typed error and INTERNAL_ERROR.
ErrorCodes ==
    [name \in ManagerErrors \cup {"INTERNAL_ERROR"} |-> <<"ErrorCodes", name>>]

\* fmt_message of the subclasses of ManagerError
fmt_message(type) ==
    CASE type = "PkgAlreadyInstalled" -> "package already installed"
      [] type = "PkgConflictsWithInstalled" ->
             "package folders conflict with installed package's {self.conflicting_pkg.origin}:{self.conflicting_pkg.slug}"
      [] type = "PkgConflictsWithPreexisting" ->
             "package folders conflict with an add-on's not installed by instawow"
      [] type = "PkgNonexistent" -> "package does not exist"
      [] type = "PkgTemporarilyUnavailable" -> "package is temporarily unavailable"
      [] type = "PkgNotInstalled" -> "package is not installed"
      [] type = "PkgOriginInvalid" -> "package origin is invalid"
      [] type = "PkgUpToDate" -> "package is up to date"
      [] type = "InternalError" -> "encountered {self.error.__class__.__name__}"

\* ManagerResult.message: fmt_message.format(self=self)
message(error) ==
    CASE error.type = "PkgConflictsWithInstalled" ->
             <<fmt_message(error.type), error.item>>
      [] error.type = "InternalError" -> <<fmt_message(error.type), error.error>>
      [] OTHER -> <<fmt_message(error.type)>>

\* request.consume_result(result): the success response.
SuccessResponse(request, result) ==
    [id |-> request.id, result |-> result, error |-> None]

ErrorResponse(id, code, text) ==
    [id |-> id, result |-> None, error |-> [code |-> code, message |-> text]]

\* Variant: an exception outside the taxonomy is reported as the batch
\* reports it, by the message of the InternalError around it.
respond_names_fault(request, awaited) ==
    IF ~awaited.raised
    THEN SuccessResponse(request, awaited.value)
    ELSE IF awaited.value.type \in ManagerErrors
         THEN ErrorResponse(request.id, ErrorCodes[awaited.value.type],
                            message(awaited.value))
         ELSE ErrorResponse(request.id, ErrorCodes["INTERNAL_ERROR"],
                            message(InternalError(awaited.value)))

\* Variant: the response is built without the request.
respond_without_id(request, awaited) ==
    IF ~awaited.raised
    THEN [SuccessResponse(request, awaited.value) EXCEPT !.id = "None"]
    ELSE IF awaited.value.type \in ManagerErrors
         THEN ErrorResponse("None", ErrorCodes[awaited.value.type],
                            message(awaited.value))
         ELSE ErrorResponse("None", ErrorCodes["INTERNAL_ERROR"],
                            <<"encountered an internal error">>)

\* respond: the response made from what the awaitable did.
respond(request, awaited) ==
    IF ~awaited.raised
    THEN SuccessResponse(request, awaited.value)
    ELSE IF awaited.value.type \in ManagerErrors
         THEN ErrorResponse(request.id, ErrorCodes[awaited.value.type],
                            message(awaited.value))
         ELSE ErrorResponse(request.id, ErrorCodes["INTERNAL_ERROR"],
                            <<"encountered an internal error">>)

\* await websocket.send_json(response): response answers request k.
send_json(k, response) == Append(ws.sent, [request |-> k, response |-> response])

Requests == 1..Len(ws.requests)

\* receiver: a request arrives.  A mutating request is put on the queue
\* with a new future and its schedule task is created; for any other
\* request the respond task is created.
poll_receiver ==
    /\ Len(ws.requests) < MaxRequests
    /\ \E id \in Ids, method \in Methods :
         LET request == [id |-> id, method |-> method, pc |-> "prepare",
                         future |-> Returns(None)]
             k == Len(ws.requests) + 1
         IN ws' = [ws EXCEPT !.requests = Append(@, request),
                             !.consumer_queue =
                                 IF queued(method) THEN Append(@, k) ELSE @]
    /\ UNCHANGED <<engine, mode, ops, env, batch, rc, utils>>

\* schedule: prepare_response has returned or raised; the future is set.
poll_schedule(k) ==
    /\ k \in Requests
    /\ ws.requests[k].pc = "prepare"
    /\ queued(ws.requests[k].method)
    /\ \E awaited \in Awaitables(prepared(ws.requests[k].method), "x") :
         ws' = [ws EXCEPT !.requests[k].future = awaited,
                          !.requests[k].pc = "set"]
    /\ UNCHANGED <<engine, mode, ops, env, batch, rc, utils>>

\* The respond task of a request that was not queued.
poll_respond(k) ==
    /\ k \in Requests
    /\ ws.requests[k].pc = "prepare"
    /\ ~queued(ws.requests[k].method)
    /\ \E awaited \in Awaitables(prepared(ws.requests[k].method), "x") :
         ws' = [ws EXCEPT !.requests[k].pc = "answered",
                          !.sent = send_json(k, respond(ws.requests[k], awaited))]
    /\ UNCHANGED <<engine, mode, ops, env, batch, rc, utils>>

\* Variant: the consumer takes any queued request, not the oldest.
poll_consumer_any ==
    /\ ws.consuming = 0
    /\ \E n \in 1..Len(ws.consumer_queue) :
         ws' = [ws EXCEPT !.consuming = ws.consumer_queue[n],
                          !.consumer_queue =
                              SubSeq(@, 1, n - 1) \o SubSeq(@, n + 1, Len(@))]
    /\ UNCHANGED <<engine, mode, ops, env, batch, rc, utils>>

\* consumer: request, future = await consumer_queue.get()
poll_consumer ==
    /\ ws.consuming = 0
    /\ ws.consumer_queue # <<>>
    /\ ws' = [ws EXCEPT !.consuming = Head(ws.consumer_queue),
                        !.consumer_queue = Tail(@)]
    /\ UNCHANGED <<engine, mode, ops, env, batch, rc, utils>>

\* consume: the future is done.  An exception, or the result of a request
\* with no deferred action, is answered; the deferred action of an install
\* or update request is awaited.
poll_consume ==
    /\ ws.consuming # 0
    /\ LET k == ws.consuming
           request == ws.requests[k]
       IN /\ request.pc = "set"
          /\ IF ~request.future.raised /\ deferred(request.method)
             THEN ws' = [ws EXCEPT !.requests[k].pc = "deferred"]
             ELSE ws' = [ws EXCEPT !.requests[k].pc = "answered",
                                   !.consuming = 0,
                                   !.sent = send_json(k, respond(request, request.future))]
    /\ UNCHANGED <<engine, mode, ops, env, batch, rc, utils>>

\* consume: result = await result(); respond sends what it did;
\* consumer_queue.task_done()
poll_consume_deferred ==
    /\ ws.consuming # 0
    /\ LET k == ws.consuming
           request == ws.requests[k]
       IN /\ request.pc = "deferred"
          /\ \E awaited \in Awaitables(performed(request.method), "x") :
               ws' = [ws EXCEPT !.requests[k].pc = "answered",
                                !.consuming = 0,
                                !.sent = send_json(k, respond(request, awaited))]
    /\ UNCHANGED <<engine, mode, ops, env, batch, rc, utils>>

NextWs ==
    \/ poll_receiver
    \/ \E k \in 1..MaxRequests : poll_schedule(k)
    \/ \E k \in 1..MaxRequests : poll_respond(k)
    \/ poll_consumer
    \/ poll_consume
    \/ poll_consume_deferred

\* A connection on an installation nothing else is working on.
InitWs ==
    /\ db = {}
    /\ sessDeleted = {}
    /\ disk = [f \in Folders |-> Absent]
    /\ trashed = {}
    /\ mode = "idle"
    /\ ops = <<>>
    /\ faults = FALSE
    /\ strategies = {"default"}
    /\ batch = NoBatch
    /\ ws = NoConnection
    /\ rc = NoReconcile
    /\ collection = NoCollection
    /\ slots = NoSlots
    /\ archive = NoArchive

SpecWs == InitWs /\ [][NextWs]_vars

\* The event loop runs every task that can run, and every prepare_response
\* and deferred action ends, with a result or an exception.
SpecWsLive ==
    /\ SpecWs
    /\ \A k \in 1..MaxRequests : WF_vars(poll_schedule(k))
    /\ \A k \in 1..MaxRequests : WF_vars(poll_respond(k))
    /\ WF_vars(poll_consumer)
    /\ WF_vars(poll_consume)
    /\ WF_vars(poll_consume_deferred)

\* Only the respond tasks are known to go on: a prepare_response of a
\* mutating request, or a deferred action, may take for ever.
SpecWsResolve == SpecWs /\ \A k \in 1..MaxRequests : WF_vars(poll_respond(k))

(***************************************************************************)
(* The reconcile command (src/instawow/cli.py).  What a matcher finds for  *)
(* a set of folders, and what the user selects, is left open: a pass ends  *)
(* with selections for some groups of the folders it was given.            *)
(***************************************************************************)
\* Variant: both passes over the TOC files come before the folder names.
Passes_toc_first == <<"match_toc_ids", "match_toc_names", "match_dir_names">>

\* The matchers of match_all, in its order.
Passes == <<"match_toc_ids", "match_dir_names", "match_toc_names">>

\* Variant: every folder of the add-on directory, owned or not.
get_folders_all == OnDisk

\* get_folders(manager): the folders of the add-on directory that no
\* package owns.
get_folders == {f \in OnDisk : \A row \in Visible : f \notin RowFolders(row)}

\* filter(is_pkg, ...): the definitions that resolve to a package.
Shortlisted ==
    {ref \in Refs : ref[1] \in Registered /\ resolve(ref[1], ref[2]) # {}}

\* One selection of prompt: the group of folders it was made for and the
\* definition selected.
Groups(leftovers) ==
    [folders : SUBSET leftovers \ {{}}, defn : Shortlisted]

\* list(prompt(groups)): selections for groups that share no folder.
Selections(leftovers) ==
    {<<>>} \cup {<<g>> : g \in Groups(leftovers)}
           \cup {<<g, h>> : <<g, h>> \in
                    {p \in Groups(leftovers) \X Groups(leftovers) :
                         p[1].folders \cap p[2].folders = {}}}

\* click.echo: a line of text, or a table with one row for each folder.
echo(text, rows) == [text |-> text, rows |-> rows]

\* Variant: the table is printed in either mode.
unreconciled_always(auto, leftovers) ==
    IF leftovers # {} THEN <<echo("unreconciled", leftovers)>> ELSE <<>>

\* if not auto and leftovers: the table of the folders left
unreconciled(auto, leftovers) ==
    IF ~auto /\ leftovers # {} THEN <<echo("unreconciled", leftovers)>> ELSE <<>>

\* Variant: the command goes on to its passes when it finds no folder.
reconcile_without_return ==
    /\ mode = "idle"
    /\ rc.pc \in {"idle", "done"}
    /\ \E auto \in BOOLEAN :
         rc' = [NoReconcile EXCEPT
                   !.pc = "match", !.auto = auto, !.leftovers = get_folders,
                   !.echoed = IF auto THEN <<>> ELSE <<echo("preamble", {})>>]
    /\ UNCHANGED <<engine, mode, ops, env, batch, ws, utils>>

\* reconcile, up to the creation of the matcher; the command may be run
\* again when it has ended.
reconcile ==
    /\ mode = "idle"
    /\ rc.pc \in {"idle", "done"}
    /\ \E auto \in BOOLEAN :
         LET leftovers == get_folders IN
         rc' = IF leftovers = {}
               THEN [NoReconcile EXCEPT
                        !.pc = "done", !.auto = auto,
                        !.echoed = <<echo("No add-ons left to reconcile.", {})>>]
               ELSE [NoReconcile EXCEPT
                        !.pc = "match", !.auto = auto,
                        !.leftovers = leftovers,
                        !.echoed = IF auto THEN <<>> ELSE <<echo("preamble", {})>>]
    /\ UNCHANGED <<engine, mode, ops, env, batch, ws, utils>>

\* match_all: the loop takes the next matcher, which is sent the leftovers;
\* prompt yields the selections.
match_all ==
    /\ rc.pc = "match"
    /\ Len(rc.ran) < Len(Passes)
    /\ \E selections \in Selections(rc.leftovers) :
         rc' = [rc EXCEPT !.pc = "selected",
                          !.ran = Append(@, Passes[Len(@) + 1]),
                          !.given = Append(@, rc.leftovers),
                          !.selections = selections]
    /\ UNCHANGED <<engine, mode, ops, env, batch, ws, utils>>

\* manager.install(selections, replace=True), when there are selections
\* and the user confirms or the mode is automatic.
reconcile_install ==
    /\ rc.pc = "selected"
    /\ rc.selections # <<>>
    /\ ops' = [n \in 1..Len(rc.selections) |->
                 NewOp("install", rc.selections[n].defn, "default", TRUE)]
    /\ mode' = "install_many"
    /\ rc' = [rc EXCEPT !.pc = "installing"]
    /\ UNCHANGED <<engine, env, batch, ws, utils>>

\* leftovers = get_folders(manager), after the install has returned, or
\* when there was nothing to install or the user declined; the matcher is
\* exhausted after its last pass.
reconcile_leftovers ==
    /\ \/ rc.pc = "installing" /\ AllDone
       \/ rc.pc = "selected" /\ (rc.selections = <<>> \/ ~rc.auto)
    /\ rc' = [rc EXCEPT !.pc = IF Len(rc.ran) < Len(Passes) THEN "match" ELSE "report",
                        !.leftovers = get_folders]
    /\ mode' = "idle"
    /\ ops' = <<>>
    /\ trashed' = {}
    /\ UNCHANGED <<db, sessDeleted, disk, env, batch, ws, utils>>

\* The end of reconcile: the folders left are printed.
reconcile_report ==
    /\ rc.pc = "report"
    /\ rc' = [rc EXCEPT !.pc = "done",
                        !.echoed = @ \o unreconciled(rc.auto, rc.leftovers)]
    /\ UNCHANGED <<engine, mode, ops, env, batch, ws, utils>>

NextReconcile ==
    \/ reconcile
    \/ match_all
    \/ reconcile_install
    \/ reconcile_leftovers
    \/ reconcile_report
    \/ \E i \in Idx : to_install_get(i)
    \/ \E i \in Idx : to_install_fetch(i)
    \/ \E i \in Idx : install_check(i)
    \/ \E i \in Idx : install_trash(i)
    \/ \E i \in Idx : install_extract(i)
    \/ \E i \in Idx : install_commit(i)

\* An add-on directory that may hold folders nobody installed through the
\* engine, an empty database, no faults.
InitReconcile ==
    /\ db = {}
    /\ sessDeleted = {}
    /\ disk \in [Folders -> {Absent, Pre}]
    /\ trashed = {}
    /\ mode = "idle"
    /\ ops = <<>>
    /\ faults = FALSE
    /\ strategies = {"default"}
    /\ batch = NoBatch
    /\ ws = NoConnection
    /\ rc = NoReconcile
    /\ collection = NoCollection
    /\ slots = NoSlots
    /\ archive = NoArchive

SpecReconcile == InitReconcile /\ [][NextReconcile]_vars

\* The command goes on: every prompt is answered and every install ends.
SpecReconcileLive == SpecReconcile /\ WF_vars(NextReconcile)

(***************************************************************************)
(* merge_intersecting_sets (instawow.utils): the union of the sets of a    *)
(* collection that share an element, by repeated pairwise merges until no  *)
(* two sets overlap.                                                       *)
(***************************************************************************)
MaxSets == 3

Elems == {"a", "b", "c", "d"}

\* The collections a caller may pass: sets of elements, in some order.
Collections == UNION {[1..n -> SUBSET Elems] : n \in 0..MaxSets}

Without(many_sets, idx) ==
    SubSeq(many_sets, 1, idx - 1) \o SubSeq(many_sets, idx + 1, Len(many_sets))

\* Variant: the other sets are looked at once each, in their order.
RECURSIVE absorb_in_one_scan(_, _)
absorb_in_one_scan(this_set, many_sets) ==
    IF many_sets = <<>>
    THEN <<this_set, <<>>>>
    ELSE IF this_set \cap Head(many_sets) # {}
         THEN absorb_in_one_scan(this_set \cup Head(many_sets), Tail(many_sets))
         ELSE LET rest == absorb_in_one_scan(this_set, Tail(many_sets))
              IN <<rest[1], <<Head(many_sets)>> \o rest[2]>>

\* One set takes in the first other set it overlaps, again and again until
\* it overlaps none: the merged set and the sets left.
RECURSIVE absorb(_, _)
absorb(this_set, many_sets) ==
    LET overlapping == {idx \in 1..Len(many_sets) :
                            this_set \cap many_sets[idx] # {}}
    IN IF overlapping = {}
       THEN <<this_set, many_sets>>
       ELSE LET idx == CHOOSE i \in overlapping : \A j \in overlapping : i <= j
            IN absorb(this_set \cup many_sets[idx], Without(many_sets, idx))

RECURSIVE merge_intersecting_sets(_)
merge_intersecting_sets(it) ==
    IF it = <<>>
    THEN <<>>
    ELSE LET merged == absorb(Head(it), Tail(it))
         IN <<merged[1]>> \o merge_intersecting_sets(merged[2])

\* A caller passes a collection.
merge_call ==
    /\ collection.pc = "idle"
    /\ \E it \in Collections :
         collection' = [pc |-> "called", given |-> it, merged |-> <<>>]
    /\ UNCHANGED <<engine, mode, ops, env, batch, ws, rc, slots, archive>>

\* merge_intersecting_sets returns.
merge_return ==
    /\ collection.pc = "called"
    /\ collection' = [collection EXCEPT
                         !.pc = "done",
                         !.merged = merge_intersecting_sets(collection.given)]
    /\ UNCHANGED <<engine, mode, ops, env, batch, ws, rc, slots, archive>>

NextMerge == merge_call \/ merge_return

InitUtils ==
    /\ db = {}
    /\ sessDeleted = {}
    /\ disk = [f \in Folders |-> Absent]
    /\ trashed = {}
    /\ mode = "idle"
    /\ ops = <<>>
    /\ faults = FALSE
    /\ strategies = {"default"}
    /\ batch = NoBatch
    /\ ws = NoConnection
    /\ rc = NoReconcile
    /\ collection = NoCollection
    /\ slots = NoSlots
    /\ archive = NoArchive

SpecMerge == InitUtils /\ [][NextMerge]_vars

(***************************************************************************)
(* The progress-bar slots of CliManager.  bar_positions is the list of     *)
(* flags (index 0 first); a bar keeps the position it was given and the    *)
(* index its reset callback is bound to.  Bars are opened by gather and by *)
(* do_on_request_end, and closed by the with statement and by ticker.      *)
(***************************************************************************)
MaxBars == 5

\* Variant: the last free slot instead of the first.
index_last(list, value) ==
    (CHOOSE i \in 1..Len(list) :
        list[i] = value /\ \A j \in 1..Len(list) : list[j] = value => j <= i) - 1

\* list.index(value), where the value occurs: the first index, from 0.
index(list, value) ==
    (CHOOSE i \in 1..Len(list) :
        list[i] = value /\ \A j \in 1..(i - 1) : list[j] # value) - 1

\* CliManager.bar_position: the slot handed out and the list it leaves.
bar_position ==
    IF \E i \in 1..Len(slots.bar_positions) : slots.bar_positions[i] = FALSE
    THEN LET b == index(slots.bar_positions, FALSE) IN
         [b |-> b,
          bar_positions |-> [slots.bar_positions EXCEPT ![b + 1] = TRUE]]
    ELSE [b |-> Len(slots.bar_positions),
          bar_positions |-> Append(slots.bar_positions, TRUE)]

\* self.Bar(..., position=self.bar_position): Bar.__init__ splits the pair
\* into the bar's position and its reset callback.
Bar_init ==
    /\ Len(slots.bars) < MaxBars
    /\ LET got == bar_position IN
       slots' = [bar_positions |-> got.bar_positions,
                 bars |-> Append(slots.bars,
                                 [position |-> got.b,
                                  reset_position |-> got.b,
                                  closed |-> FALSE])]
    /\ UNCHANGED <<engine, mode, ops, env, batch, ws, rc, collection, archive>>

\* Bar.close: tqdm's close, then the reset callback.
Bar_close(k) ==
    /\ k \in 1..Len(slots.bars)
    /\ ~slots.bars[k].closed
    /\ slots' = [bar_positions |->
                    [slots.bar_positions
                        EXCEPT ![slots.bars[k].reset_position + 1] = FALSE],
                 bars |-> [slots.bars EXCEPT ![k].closed = TRUE]]
    /\ UNCHANGED <<engine, mode, ops, env, batch, ws, rc, collection, archive>>

NextBars == Bar_init \/ \E k \in 1..MaxBars : Bar_close(k)

SpecBars == InitUtils /\ [][NextBars]_vars

(***************************************************************************)
(* PkgArchive.__init__ and the folder rows the deferred install builds     *)
(* from it.  A member name is the sequence of its components and "/"       *)
(* separators: <<"b", "/">> is the directory entry b/, <<"b", "/", "b.toc">>*)
(* the file b/b.toc, <<"a">> a file at the archive root.                   *)
(***************************************************************************)
Members ==
    {<<"a">>, <<"b", "/">>, <<"b", "/", "b.toc">>, <<"c", "/">>,
     <<"__MACOSX", "/">>, <<"__MACOSX", "/", "b">>}

IsSeparator(part) == part = "/"

IsComponent(part) == part # "/"

\* Path(p).parts: the components, a trailing separator dropped.
parts(p) == SelectSeq(p, IsComponent)

\* archive = PkgArchive(payload)
PkgArchive_init ==
    /\ archive.pc = "idle"
    /\ \E namelist \in SUBSET Members :
           archive' = [pc |-> "opened",
                       namelist |-> namelist,
                       root_folders |-> {parts(p)[1] : p \in namelist},
                       folders |-> {}]
    /\ UNCHANGED <<engine, mode, ops, env, batch, ws, rc, collection, slots>>

\* pkg.folders = [PkgFolder(path=addon_dir / f) for f in archive.root_folders]
install_folders ==
    /\ archive.pc = "opened"
    /\ archive' = [archive EXCEPT !.pc = "recorded",
                                  !.folders = archive.root_folders]
    /\ UNCHANGED <<engine, mode, ops, env, batch, ws, rc, collection, slots>>

NextArchive == PkgArchive_init \/ install_folders

SpecArchive == InitUtils /\ [][NextArchive]_vars

(***************************************************************************)
(* Reading a step: which operation moved, and what it left behind.         *)
(***************************************************************************)
\* The step is one of operation i's (every step of an operation changes
\* its record and no other's).
StepOf(i) == Len(ops') = Len(ops) /\ ops'[i] # ops[i]

Persisted(origin, id_or_slug) == \E row \in db : Matches(row, origin, id_or_slug)

Owners(folders) == {row \in db : RowFolders(row) \cap folders # {}}

EngineUntouched == engine' = engine

C2_PersistedMatchesDisk ==
    AllDone => \A row \in db : RowFolders(row) \subseteq OnDisk


(***************************************************************************)
(* C3.  An install of a reference whose package is persisted (the source   *)
(* matches, and the id or the slug) fails with PkgAlreadyInstalled at its  *)
(* first step: nothing is resolved or downloaded, and the add-on           *)
(* directory, the trash and the database are as they were.                 *)
(***************************************************************************)
C3_InstallOfInstalledFails ==
    [][\A i \in Idx :
         ( /\ StepOf(i)
           /\ ops[i].kind = "install" /\ ops[i].pc = "start"
           /\ Persisted(ops[i].origin, ops[i].name) )
         => /\ ops'[i].pc = "done"
            /\ ops'[i].outcome.type = "PkgAlreadyInstalled"
            /\ ~ops'[i].resolved /\ ~ops'[i].downloaded
            /\ EngineUntouched]_vars

\* An install by slug was refused for a package that is persisted.
C3_Witness ==
    \E i \in Idx :
        /\ ops[i].kind = "install" /\ ops[i].name = "a"
        /\ ops[i].outcome.type = "PkgAlreadyInstalled"
        /\ Persisted(ops[i].origin, ops[i].name)
        /\ ~ops[i].resolved

(***************************************************************************)
(* C4.  When the deferred install action starts and a persisted package    *)
(* owns one of the archive's root folders, it fails with                   *)
(* PkgConflictsWithInstalled naming such a package, whatever overwrite is, *)
(* and nothing is trashed, extracted or written.                           *)
(***************************************************************************)
C4_InstallConflictsWithInstalled ==
    [][\A i \in Idx :
         ( /\ StepOf(i)
           /\ ops[i].kind = "install" /\ ops[i].pc = "ready"
           /\ Owners(root_folders(ops[i].pkg)) # {} )
         => /\ ops'[i].pc = "done"
            /\ ops'[i].outcome.type = "PkgConflictsWithInstalled"
            /\ ops'[i].outcome.old \in Owners(root_folders(ops[i].pkg))
            /\ EngineUntouched]_vars

\* One batch held an install with overwrite and one without, and both were
\* refused for a folder of a persisted package.
C4_Witness ==
    \E i, j \in Idx :
        /\ ops[i].kind = "install" /\ ops[j].kind = "install"
        /\ ops[i].overwrite /\ ~ops[j].overwrite
        /\ ops[i].outcome.type = "PkgConflictsWithInstalled"
        /\ ops[j].outcome.type = "PkgConflictsWithInstalled"
        /\ ops[i].outcome.old \in db /\ ops[j].outcome.old \in db

(***************************************************************************)
(* C5.  An install without overwrite that has passed the installed-package *)
(* check, when a root folder of the archive exists in the add-on directory *)
(* (owned by no persisted package), fails with PkgConflictsWithPreexisting *)
(* carrying exactly the root folders that exist; nothing is extracted or   *)
(* trashed and no row is written.                                          *)
(***************************************************************************)
Unowned(folders) == {f \in folders : \A row \in db : f \notin RowFolders(row)}

C5_InstallConflictsWithPreexisting ==
    [][\A i \in Idx :
         ( /\ StepOf(i)
           /\ ops[i].kind = "install" /\ ops[i].pc = "extract"
           /\ ~ops[i].overwrite
           /\ Unowned(root_folders(ops[i].pkg) \cap OnDisk) # {} )
         => /\ ops'[i].pc = "done"
            /\ ops'[i].outcome =
                   PkgConflictsWithPreexisting(root_folders(ops[i].pkg) \cap OnDisk)
            /\ ops'[i].outcome.folders = Unowned(root_folders(ops[i].pkg) \cap OnDisk)
            /\ EngineUntouched]_vars

\* The install was refused for one of its two folders, the one that was
\* there before; that folder is untouched and the package is not persisted.
C5_Witness ==
    \E i \in Idx :
        /\ ops[i].kind = "install" /\ ~ops[i].overwrite
        /\ ops[i].outcome.type = "PkgConflictsWithPreexisting"
        /\ ops[i].outcome.folders = {"f2"}
        /\ root_folders(ops[i].pkg) = {"f1", "f2"}
        /\ disk["f2"] = Pre /\ disk["f1"] = Absent
        /\ ~Persisted(ops[i].origin, ops[i].name)
        /\ trashed = {}


(***************************************************************************)
(* C6.  An install with overwrite moves exactly the root folders that      *)
(* exist to the trash, with their content, and extracts only when all of   *)
(* them have been moved; the extraction then finds none of them in the     *)
(* way, the commit answers PkgInstalled, and nothing leaves the trash.     *)
(***************************************************************************)
C6_OverwriteTrashesThenExtracts ==
    [][\A i \in Idx :
         (StepOf(i) /\ ops[i].kind = "install" /\ ops[i].overwrite)
         => LET existing == root_folders(ops[i].pkg) \cap OnDisk IN
            /\ ops[i].pc = "trash" =>
                 /\ \A f \in Folders :
                        disk'[f] # disk[f] =>
                            /\ f \in existing
                            /\ disk'[f] = Absent
                            /\ <<f, disk[f]>> \in trashed'
                 /\ trashed' \ trashed \subseteq {<<f, disk[f]>> : f \in existing}
                 /\ ops'[i].pc = "extract" =>
                        /\ \A f \in existing : disk'[f] = Absent
                        /\ trashed' = trashed \cup {<<f, disk[f]>> : f \in existing}
                 /\ db' = db
            /\ ops[i].pc # "trash" => trashed' = trashed
            /\ disk' # disk => ops[i].pc \in {"trash", "extract"}
            /\ ops[i].pc = "extract" => existing = {}
            /\ ops[i].pc = "commit" =>
                 /\ ops'[i].outcome = PkgInstalled(Row(ops[i].pkg, ops[i].strategy))
                 /\ ops'[i].outcome.new \in db']_vars

\* An install with overwrite ended with PkgInstalled; the folder that was
\* in its way is in the trash with the content it had, and the add-on
\* directory holds the package's folders.
C6_Witness ==
    \E i \in Idx :
        /\ ops[i].kind = "install" /\ ops[i].overwrite
        /\ ops[i].outcome.type = "PkgInstalled"
        /\ root_folders(ops[i].pkg) = {"f1", "f2"}
        /\ trashed = {<<"f2", Pre>>}
        /\ \A f \in root_folders(ops[i].pkg) : disk[f] = ops[i].pkg

(***************************************************************************)
(* C7.  An install writes its row only in its commit step, which it        *)
(* reaches only from an extraction that wrote every root folder; a step    *)
(* of an install that does not end in PkgInstalled leaves the database as  *)
(* it was, so a failed install run alone leaves its reference uninstalled. *)
(***************************************************************************)
InstallFailed(i) ==
    /\ ops[i].kind = "install" /\ ops[i].pc = "done"
    /\ ops[i].outcome.type \notin {"PkgInstalled", "PkgAlreadyInstalled"}

C7_ExtractionBeforeCommit ==
    /\ [][\A i \in Idx :
            (StepOf(i) /\ ops[i].kind = "install")
            => /\ db' # db =>
                    /\ ops[i].pc = "commit"
                    /\ ops'[i].outcome.type = "PkgInstalled"
                    /\ db' = db \cup {Row(ops[i].pkg, ops[i].strategy)}
               /\ (ops'[i].pc = "commit" /\ ops[i].pc # "commit") =>
                    /\ ops[i].pc = "extract"
                    /\ \A f \in root_folders(ops[i].pkg) : disk'[f] = ops[i].pkg
               /\ ops'[i].outcome.type # "PkgInstalled" => db' = db]_vars
    /\ [](\A i \in Idx :
            (Len(ops) = 1 /\ InstallFailed(i))
            => ~Persisted(ops[i].origin, ops[i].name))

\* An install run alone failed in its extraction, which left a folder
\* behind, and no row is persisted for it.
C7_Witness ==
    \E i \in Idx :
        /\ Len(ops) = 1 /\ InstallFailed(i)
        /\ ops[i].outcome.type = "Exception"
        /\ ops[i].pkg = "A2" /\ disk["f1"] = "A2" /\ disk["f2"] = Absent
        /\ db = {}

(***************************************************************************)
(* C8.  An update or a remove of a reference with no persisted package     *)
(* fails with PkgNotInstalled at its first step: nothing is resolved or    *)
(* downloaded and the add-on directory, the trash and the database are as  *)
(* they were.                                                              *)
(***************************************************************************)
C8_NotInstalledFails ==
    [][\A i \in Idx :
         ( /\ StepOf(i)
           /\ ops[i].kind \in {"update", "remove"} /\ ops[i].pc = "start"
           /\ ~Persisted(ops[i].origin, ops[i].name) )
         => /\ ops'[i].pc = "done"
            /\ ops'[i].outcome.type = "PkgNotInstalled"
            /\ ~ops'[i].resolved /\ ~ops'[i].downloaded
            /\ EngineUntouched]_vars

\* An update and a remove were both refused while another package of the
\* same source was persisted.
C8_Witness ==
    \E i, j \in Idx :
        /\ ops[i].kind = "update" /\ ops[j].kind = "remove"
        /\ ops[i].outcome.type = "PkgNotInstalled"
        /\ ops[j].outcome.type = "PkgNotInstalled"
        /\ ~ops[i].resolved /\ ~ops[j].resolved
        /\ ops[i].origin = "curse" /\ ops[j].origin = "curse"
        /\ \E row \in db : Release[row.rel].origin = "curse"

(***************************************************************************)
(* C9.  When the resolver has answered an update, the update fails with    *)
(* PkgUpToDate exactly when the answer's file_id equals the file_id of the *)
(* package the update found installed, whatever the versions; it then has  *)
(* downloaded nothing and changed nothing.  No other step answers          *)
(* PkgUpToDate.                                                            *)
(***************************************************************************)
C9_UpToDateIsFileIdEquality ==
    [][\A i \in Idx :
         (StepOf(i) /\ ops[i].kind = "update")
         => /\ (ops[i].pc = "fetch" /\ ops'[i].pkg # NoRel) =>
                 /\ ops'[i].outcome.type = "PkgUpToDate"
                        <=> Release[ops[i].cur.rel].file_id = Release[ops'[i].pkg].file_id
                 /\ ops'[i].outcome.type = "PkgUpToDate" =>
                        /\ ops'[i].pc = "done"
                        /\ ~ops'[i].downloaded
                        /\ EngineUntouched
            /\ ops'[i].outcome.type = "PkgUpToDate" =>
                   ops[i].pc = "fetch" /\ ops'[i].pkg # NoRel]_vars

\* In one batch, an update was refused as up to date although the version
\* differs, and another went on to download a release of the same version
\* with another file_id.
C9_Witness ==
    \E i, j \in Idx :
        /\ ops[i].kind = "update" /\ ops[j].kind = "update"
        /\ ops[i].outcome.type = "PkgUpToDate"
        /\ Release[ops[i].cur.rel].version # Release[ops[i].pkg].version
        /\ ops[j].pkg # NoRel /\ ops[j].downloaded
        /\ ops[j].outcome.type # "PkgUpToDate"
        /\ Release[ops[j].cur.rel].version = Release[ops[j].pkg].version
        /\ Release[ops[j].cur.rel].file_id # Release[ops[j].pkg].file_id

(***************************************************************************)
(* C10.  When an update answers PkgUpdated, the new package's file_id      *)
(* differs from the old one's, every folder of the new package is in the   *)
(* add-on directory with the new content, the folders only the old package *)
(* had are gone, and the database holds the new row and not the old one.   *)
(***************************************************************************)
UpdatedStep(i) ==
    /\ StepOf(i)
    /\ ops[i].kind = "update"
    /\ ops'[i].outcome.type = "PkgUpdated"

UpdatedReplaces(i) ==
    LET old == ops'[i].outcome.old
        new == ops'[i].outcome.new IN
    /\ old = ops[i].cur
    /\ RowKey(new) = RowKey(old)
    /\ Release[new.rel].file_id # Release[old.rel].file_id
    /\ \A f \in RowFolders(new) : disk'[f] = new.rel
    /\ \A f \in RowFolders(old) \ RowFolders(new) : disk'[f] = Absent
    /\ new \in db' /\ old \notin db'
    /\ \A row \in db' : RowKey(row) = RowKey(new) => row = new

C10_UpdatedReplacesPackage ==
    [][\A i \in Idx : UpdatedStep(i) => UpdatedReplaces(i)]_vars


(***************************************************************************)
(* C11.  When a folder of the new archive belongs to a persisted package   *)
(* other than the one being updated, the update's conflict check answers   *)
(* PkgConflictsWithInstalled naming such a package, and nothing has been   *)
(* trashed, extracted or written.                                          *)
(***************************************************************************)
OtherOwners(i) ==
    {row \in db : /\ RowFolders(row) \cap root_folders(ops[i].pkg) # {}
                  /\ RowKey(row) # RowKey(ops[i].cur)}

C11_UpdateConflictsWithOthers ==
    [][\A i \in Idx :
         ( /\ StepOf(i)
           /\ ops[i].kind = "update" /\ ops[i].pc = "ready"
           /\ OtherOwners(i) # {} )
         => /\ ops'[i].outcome.type = "PkgConflictsWithInstalled"
            /\ ops'[i].outcome.old \in OtherOwners(i)
            /\ EngineUntouched]_vars

(***************************************************************************)
(* C12.  The update's conflict check never names the package being         *)
(* updated, and when the new archive's folders belong to no other package  *)
(* the check passes on to the trash of the current folders, having         *)
(* changed nothing.                                                        *)
(***************************************************************************)
C12_OwnFoldersNotFlagged ==
    [][\A i \in Idx :
         (StepOf(i) /\ ops[i].kind = "update" /\ ops[i].pc = "ready")
         => /\ ops'[i].outcome.type = "PkgConflictsWithInstalled"
                 => RowKey(ops'[i].outcome.old) # Key(ops[i].pkg)
            /\ (\A row \in Visible :
                    RowFolders(row) \cap root_folders(ops[i].pkg) # {}
                        => RowKey(row) = Key(ops[i].pkg))
                 => /\ ops'[i].pc = "trash"
                    /\ EngineUntouched]_vars

\* An update whose new archive holds the folder its own package owns went
\* through: the folder was reclaimed for the new release.
C12_Witness ==
    \E i \in Idx :
        /\ ops[i].kind = "update"
        /\ ops[i].outcome.type = "PkgUpdated"
        /\ ops[i].cur.rel = "A1" /\ ops[i].pkg = "A2"
        /\ <<"f1", "A1">> \in trashed
        /\ disk["f1"] = "A2"

(***************************************************************************)
(* C13.  The step that ends an update leaves exactly one row for the       *)
(* package in the database: the old row or the new one.                    *)
(***************************************************************************)
C13_UpdateReplacesAtomically ==
    [][\A i \in Idx :
         ( /\ StepOf(i)
           /\ ops[i].kind = "update" /\ ops'[i].pc = "done"
           /\ ops[i].cur \in db )
         => LET rows == {row \in db' : RowKey(row) = RowKey(ops[i].cur)} IN
            \/ rows = {ops[i].cur}
            \/ rows = {Row(ops[i].pkg, ops[i].strategy)}]_vars

(***************************************************************************)
(* C14.  An update resolves with the strategy recorded on the installed    *)
(* package; the row it writes carries that strategy, so every persisted    *)
(* row keeps the strategy its package was installed with.                  *)
(***************************************************************************)
C14_UpdateKeepsStrategy ==
    /\ [][\A i \in Idx :
            (StepOf(i) /\ ops[i].kind = "update")
            => /\ (ops'[i].resolved /\ ~ops[i].resolved)
                    => ops'[i].strategy = ops[i].cur.strategy
               /\ ops'[i].outcome.type = "PkgUpdated"
                    => /\ ops'[i].outcome.new.strategy = ops[i].cur.strategy
                       /\ ops'[i].outcome.new \in db']_vars
    /\ [](\A row \in db : row.strategy \in strategies)

\* A package installed with a strategy other than the default was updated
\* and its new row carries that strategy.
C14_Witness ==
    \E i \in Idx :
        /\ ops[i].kind = "update"
        /\ ops[i].outcome.type = "PkgUpdated"
        /\ ops[i].outcome.old.strategy = "latest"
        /\ ops[i].outcome.new.strategy = "latest"
        /\ ops[i].outcome.new \in db

(***************************************************************************)
(* C15.  A remove touches only the folders of its package, moving each to  *)
(* the trash with its content; when it answers PkgRemoved no row is left   *)
(* for the package, none of its folders is in the add-on directory, each   *)
(* of them is in the trash, and every other row is still persisted.        *)
(***************************************************************************)
RemoveStep(i) == StepOf(i) /\ ops[i].kind = "remove"

RemovedCleanly(i) ==
    LET pkg == ops[i].cur IN
    /\ ops'[i].outcome = PkgRemoved(pkg)
    /\ \A row \in db' : RowKey(row) # RowKey(pkg)
    /\ \A f \in RowFolders(pkg) :
           /\ disk'[f] = Absent
           /\ \E content \in Releases \cup {Pre} : <<f, content>> \in trashed'
    /\ db \ {pkg} \subseteq db'

C15_RemoveTrashesAndDeletes ==
    [][\A i \in Idx :
         RemoveStep(i)
         => /\ \A f \in Folders :
                   disk'[f] # disk[f] => /\ f \in RowFolders(ops[i].cur)
                                         /\ disk'[f] = Absent
                                         /\ <<f, disk[f]>> \in trashed'
            /\ trashed \subseteq trashed'
            /\ ops'[i].outcome.type = "PkgRemoved" => RemovedCleanly(i)]_vars

(***************************************************************************)
(* C16.  As claimed: an install or an update of a reference whose source   *)
(* has no registered resolver ends with PkgOriginInvalid and changes       *)
(* nothing.                                                                *)
(***************************************************************************)
C16_UnregisteredOriginInvalid ==
    [][\A i \in Idx :
         ( /\ StepOf(i)
           /\ ops[i].kind \in {"install", "update"}
           /\ ops[i].origin \notin Registered
           /\ ops'[i].pc = "done" )
         => /\ ops'[i].outcome = Raised("PkgOriginInvalid")
            /\ EngineUntouched]_vars

(***************************************************************************)
(* C16, amended.  For a reference whose source has no registered resolver, *)
(* an install passes the installed-package lookup and its resolve raises   *)
(* PkgOriginInvalid, nothing being resolved or downloaded; an update ends  *)
(* at its installed-package lookup with PkgNotInstalled; neither changes   *)
(* the add-on directory, the trash or the database.                        *)
(***************************************************************************)
C16_UnregisteredOriginAmended ==
    [][\A i \in Idx :
         (StepOf(i) /\ ops[i].origin \notin Registered)
         => /\ EngineUntouched
            /\ ~ops'[i].resolved /\ ~ops'[i].downloaded
            /\ ops[i].kind = "install"
                 => /\ ops[i].pc = "start" => ops'[i].pc = "fetch"
                    /\ ops[i].pc = "fetch"
                         => /\ ops'[i].pc = "done"
                            /\ ops'[i].outcome = Raised("PkgOriginInvalid")
            /\ ops[i].kind = "update"
                 => /\ ops'[i].pc = "done"
                    /\ ops'[i].outcome = Raised("PkgNotInstalled")]_vars

\* An install and an update of a reference with an unregistered source
\* have both ended, the first with PkgOriginInvalid.
C16_Witness ==
    /\ Len(ops) = 2
    /\ ops[1].kind = "install" /\ ops[1].origin \notin Registered
    /\ ops[1].outcome.type = "PkgOriginInvalid"
    /\ ops[2].kind = "update" /\ ops[2].origin \notin Registered
    /\ ops[2].outcome.type = "PkgNotInstalled"

(***************************************************************************)
(* C17.  gather returns one future per coroutine, the k-th being the one   *)
(* set by the k-th coroutine; the batch call returns one answer per item   *)
(* of the caller's list, the k-th being an outcome of the k-th item.       *)
(***************************************************************************)
C17_ResultsInSubmissionOrder ==
    /\ batch.pc \in {"comprehension", "returned"}
         => /\ Len(batch.results) = Len(batch.coros)
            /\ \A k \in 1..Len(batch.coros) :
                   /\ batch.results[k] = batch.futures[k]
                   /\ SafeFuture_result(batch.results[k]).item = batch.coros[k]
    /\ batch.pc = "returned"
         => /\ Len(batch.answers) = Len(batch.coros)
            /\ \A k \in 1..Len(batch.coros) :
                   batch.answers[k].item = batch.coros[k]

\* A batch of three different items has returned, whose coroutines ended
\* last, first and second.
C17_Witness ==
    /\ batch.pc = "returned"
    /\ batch.coros = <<"x", "y", "z">>
    /\ [k \in 1..3 |-> batch.completed[k][1]] = <<1, 2, 0>>
    /\ [k \in 1..3 |-> batch.answers[k].item] = <<"x", "y", "z">>

Typed(answer) == answer.type \in ManagerErrors /\ answer.error = "None"

Wrapped(answer) ==
    /\ answer.type = "InternalError"
    /\ answer.error \in Thrown \ ManagerErrors

InterceptAnswers ==
    \A awaited \in Awaitables(first_value(batch.many), "x")
                     \cup Awaitables(second_value(batch.many), "x") :
        LET answer == SafeFuture_result(intercept(awaited)) IN
        /\ ~intercept(awaited).propagated
        /\ ~awaited.raised => answer = awaited.value
        /\ (awaited.raised /\ awaited.value.type \in ManagerErrors)
             => answer = awaited.value
        /\ (awaited.raised /\ awaited.value.type \notin ManagerErrors)
             => answer = InternalError(awaited.value)

C19_ErrorsBecomeOutcomes ==
    /\ batch.pc # "raised"
    /\ \A k \in 1..Len(batch.answers) :
           LET answer == batch.answers[k]
               first == batch.futures[k] IN
           /\ \/ Typed(answer)
              \/ Wrapped(answer)
              \/ answer.type \in {"Pkg", "PkgInstalled", "PkgUpdated"}
           /\ first.exception # None => answer = first.exception
           /\ first.exception.type \in ManagerErrors => Typed(answer)
           /\ first.exception.type = "InternalError" => Wrapped(answer)
    /\ \A k \in 1..Len(batch.futures) :
           LET first == batch.futures[k] IN
           first.done => \/ first.exception = None
                         \/ Typed(first.exception)
                         \/ Wrapped(first.exception)
    /\ batch.pc # "idle" => InterceptAnswers

\* An update batch has returned with a typed error and an InternalError
\* from the first phase, and a typed error from a deferred action.
C19_Witness ==
    /\ batch.pc = "returned" /\ batch.many = "update_many"
    /\ Len(batch.coros) = 3
    /\ batch.answers[1] = Value("PkgNonexistent", batch.coros[1])
    /\ batch.answers[2] = InternalError(Value("OSError", batch.coros[2]))
    /\ 3 \in batch.called
    /\ batch.answers[3] = Value("PkgNonexistent", batch.coros[3])

(***************************************************************************)
(* C20.  The bar is made with the number of coroutines before any of them  *)
(* has ended; it advances by one exactly in the steps in which a           *)
(* coroutine ends, whatever its outcome; its count is the number of        *)
(* coroutines that have ended, never above the total, and is the total     *)
(* from gather's return on.                                                *)
(***************************************************************************)
Ended == {k \in 1..Len(batch.futures) : batch.futures[k].done}

C20_ProgressCountsCompletions ==
    /\ [](batch.pc \in {"gather", "comprehension", "returned"}
            => /\ batch.bar.total = Len(batch.coros)
               /\ batch.bar.n = Cardinality(Ended)
               /\ batch.bar.n <= batch.bar.total)
    /\ [](batch.pc \in {"comprehension", "returned"}
            => batch.bar.n = batch.bar.total)
    /\ [][batch.pc' = "gather"
            => \/ /\ batch.pc = "idle"
                  /\ batch'.bar = [total |-> Len(batch'.coros), n |-> 0]
                  /\ Ended' = {}
               \/ /\ Cardinality(Ended') = Cardinality(Ended) + 1
                  /\ batch'.bar.n = batch.bar.n + 1
                  /\ batch'.bar.total = batch.bar.total]_vars

\* Three coroutines have ended, one with a result, one with a typed error
\* and one with another exception, and the bar stands at three of three.
C20_Witness ==
    /\ batch.pc = "returned"
    /\ batch.bar = [total |-> 3, n |-> 3]
    /\ batch.futures[1].exception = None
    /\ batch.futures[2].exception.type = "PkgNonexistent"
    /\ batch.futures[3].exception.type = "InternalError"

\* ---------------------------------------------------------------------
\* C21.  Batch install and update are two-phase: in a batch of
\* install_many or update_many, no item's deferred action takes its first
\* step (the conflict check that opens the closure returned by to_install
\* or to_update) while any item of the batch is still resolving or
\* downloading.
C21_TwoPhase ==
    [][\A i \in Idx :
         (/\ mode \in {"install_many", "update_many"}
          /\ StepOf(i)
          /\ ops[i].pc = "ready")
         => \A j \in Idx : ops[j].pc \notin {"start", "fetch"}]_vars

\* A batch of two in which the first item's deferred action has run to its
\* commit while the second, downloaded too, still waits for its turn.
C21_Witness ==
    /\ mode \in {"install_many", "update_many"}
    /\ Len(ops) = 2
    /\ ops[1].pc \notin {"start", "fetch", "ready", "done"}
    /\ ops[2].pc = "ready"

\* ---------------------------------------------------------------------
\* C22.  On one connection, for two mutating requests that arrived in the
\* order X then Y, no step of Y changes the database, the session or the
\* add-on directory before X has completed.
C22_MutationsInArrivalOrder ==
    [][\A i \in Idx : \A j \in Idx :
         (/\ mode = "ws"
          /\ i < j
          /\ StepOf(j)
          /\ engine' # engine)
         => Done(i)]_vars

\* ---------------------------------------------------------------------
\* C23.  The outcomes of the mutating requests of one connection are those
\* of running the requests one after the other in arrival order: when the
\* first request installed a package, a second request for the same
\* package that ran after it finds the package installed, so an install
\* answers PkgAlreadyInstalled and an update does not answer
\* PkgNotInstalled.
C23_AnswersAsIfSequential ==
    (/\ mode = "ws"
     /\ Len(ops) = 2
     /\ AllDone
     /\ ops[1].kind = "install"
     /\ ops[1].outcome.type = "PkgInstalled"
     /\ ops[2].origin = ops[1].origin
     /\ ops[2].name = ops[1].name)
    => /\ ops[2].kind = "install" => ops[2].outcome.type = "PkgAlreadyInstalled"
       /\ ops[2].kind = "update" => ops[2].outcome.type # "PkgNotInstalled"

\* ---------------------------------------------------------------------
\* The responses sent so far for request k of the connection.
SentFor(k) == {a \in 1..Len(ws.sent) : ws.sent[a].request = k}

Mutating(k) == ws.requests[k].method \in {"install", "update", "remove"}

Answered(k) == k \in Requests /\ SentFor(k) # {}

\* ---------------------------------------------------------------------
\* C24.  Responses to mutating requests are sent in the order the requests
\* arrived: of two responses to mutating requests, the one sent first
\* answers the request that arrived first.
C24_MutatingAnsweredInArrivalOrder ==
    \A a \in 1..Len(ws.sent) : \A b \in 1..Len(ws.sent) :
        (/\ a < b
         /\ Mutating(ws.sent[a].request)
         /\ Mutating(ws.sent[b].request))
        => ws.sent[a].request < ws.sent[b].request

\* The first request is answered and the consumer waits for the future of
\* the second, while the future of the third is already set.
C24_Witness ==
    /\ Len(ws.requests) = 3
    /\ \A k \in Requests : Mutating(k)
    /\ Answered(1)
    /\ ws.consuming = 2 /\ ws.requests[2].pc = "prepare"
    /\ ws.requests[3].pc = "set"

\* ---------------------------------------------------------------------
\* C25.  A resolve request is never on the mutating queue nor in the
\* consumer's hands, and it is answered once its own resolution ends,
\* whatever the mutating requests of the connection do, even when their
\* preparation or their deferred action never ends.
C25_ResolveAnsweredIndependently ==
    /\ [](\A k \in Requests :
            ws.requests[k].method = "resolve"
            => /\ ws.consuming # k
               /\ \A n \in 1..Len(ws.consumer_queue) : ws.consumer_queue[n] # k)
    /\ \A k \in 1..MaxRequests :
         (k \in Requests /\ ws.requests[k].method = "resolve") ~> Answered(k)

\* A resolve request that arrived after a mutating request has its
\* response while the mutating request is still being prepared.
C25_Witness ==
    /\ Len(ws.requests) >= 2
    /\ Mutating(1) /\ ws.requests[1].pc = "prepare"
    /\ ws.requests[2].method = "resolve" /\ Answered(2)

\* ---------------------------------------------------------------------
\* C26.  Every request received is answered in the end by one response and
\* no more, and that response carries the request's id, whether the request
\* succeeded or failed; the consumer goes on after a failure.
C26_EveryRequestAnsweredOnce ==
    /\ [](\A k \in Requests :
            /\ Cardinality(SentFor(k)) <= 1
            /\ \A a \in SentFor(k) : ws.sent[a].response.id = ws.requests[k].id)
    /\ \A k \in 1..MaxRequests : (k \in Requests) ~> Answered(k)

\* The first mutating request failed and was answered with an error, and
\* the mutating request queued after it has its response too.
C26_Witness ==
    /\ Len(ws.requests) >= 2
    /\ Mutating(1) /\ Mutating(2)
    /\ \E a \in SentFor(1) : ws.sent[a].response.error # None
    /\ \E b \in SentFor(2) : ws.sent[b].response.id = ws.requests[2].id

\* ---------------------------------------------------------------------
\* Exceptions outside the ManagerError taxonomy.
OtherFaults == {"OSError", "KeyError", "CancelledError"}

WireCodes == {ErrorCodes[name] : name \in DOMAIN ErrorCodes}

InternalErrorAnswer ==
    [code |-> ErrorCodes["INTERNAL_ERROR"],
     message |-> <<"encountered an internal error">>]

\* C27.  A request that failed with a typed error is answered with that
\* type's wire code and the error's message; a request that failed with
\* any other exception is answered with the internal-error code and one
\* fixed message, the same for every fault; every code sent is a member of
\* the enumeration.
C27_ErrorsCarryWireCodes ==
    /\ \A a \in 1..Len(ws.sent) :
         ws.sent[a].response.error # None
         => ws.sent[a].response.error.code \in WireCodes
    /\ \A k \in Requests : \A a \in SentFor(k) :
         ws.requests[k].future.raised
         => LET error == ws.requests[k].future.value IN
            ws.sent[a].response.error =
                IF error.type \in ManagerErrors
                THEN [code |-> ErrorCodes[error.type], message |-> message(error)]
                ELSE InternalErrorAnswer
    /\ \A id \in Ids : \A item \in Items :
         /\ \A type \in ManagerErrors :
              respond([id |-> id], Raises(Value(type, item))) =
                  ErrorResponse(id, ErrorCodes[type], message(Value(type, item)))
         /\ \A fault \in OtherFaults :
              respond([id |-> id], Raises(Value(fault, item))) =
                  ErrorResponse(id, InternalErrorAnswer.code,
                                InternalErrorAnswer.message)

\* One request was answered with the code of the typed error it raised,
\* another with the internal-error code.
C27_Witness ==
    /\ \E k \in Requests : \E a \in SentFor(k) :
         /\ ws.requests[k].future.raised
         /\ ws.requests[k].future.value.type \in ManagerErrors
         /\ ws.sent[a].response.error.code = ErrorCodes[ws.requests[k].future.value.type]
    /\ \E k \in Requests : \E a \in SentFor(k) :
         /\ ws.requests[k].future.raised
         /\ ws.requests[k].future.value.type \notin ManagerErrors
         /\ ws.sent[a].response.error.code = ErrorCodes["INTERNAL_ERROR"]

\* ---------------------------------------------------------------------
\* The three passes: by source identifier, by directory name, by the
\* display name of the manifest.
ThreePasses == <<"match_toc_ids", "match_dir_names", "match_toc_names">>

\* C28.  A reconciliation that starts with unowned folders runs the three
\* passes once each, in their order, and then ends: the passes run so far
\* are always the first ones of the three, the command is over only after
\* all three (or none, when there was nothing to reconcile), and once
\* started it ends whatever the passes select or install.
C28_ThreePassesInOrder ==
    /\ [](/\ Len(rc.ran) <= 3
          /\ \A n \in 1..Len(rc.ran) : rc.ran[n] = ThreePasses[n]
          /\ rc.pc \in {"report", "done"}
             => \/ rc.ran = ThreePasses
                \/ rc.ran = <<>> /\ rc.echoed = <<echo("No add-ons left to reconcile.", {})>>)
    /\ (rc.pc = "match" /\ rc.ran = <<>>) ~> (rc.pc = "done" /\ rc.ran = ThreePasses)

\* The command is over after three passes of which the first two installed
\* a package each.
C28_Witness ==
    /\ rc.pc = "done"
    /\ rc.ran = ThreePasses
    /\ Cardinality(db) = 2

\* ---------------------------------------------------------------------
\* The table of the folders left has been printed.
Reported(folders) ==
    \E n \in 1..Len(rc.echoed) : rc.echoed[n] = echo("unreconciled", folders)

\* C29.  When the three passes have run, the folders still unmatched are
\* reported, in interactive and in automatic mode alike.
C29_LeftoversReported ==
    (/\ rc.pc = "done"
     /\ rc.ran = ThreePasses
     /\ rc.leftovers # {})
    => Reported(rc.leftovers)

\* C29, amended.  When the three passes have run in interactive mode, the
\* folders still unmatched are reported, all of them and once; in
\* automatic mode nothing is reported; in neither mode is a pass run again.
C29_LeftoversReportedInteractively ==
    (rc.pc = "done" /\ rc.ran = ThreePasses)
    => /\ rc.leftovers = get_folders
       /\ Reported(rc.leftovers) <=> (~rc.auto /\ rc.leftovers # {})
       /\ Cardinality({n \in 1..Len(rc.echoed) :
                          rc.echoed[n].text = "unreconciled"}) <= 1
       /\ \A n \in 1..Len(rc.echoed) :
            rc.echoed[n].text = "unreconciled" => rc.echoed[n].rows = rc.leftovers

\* An interactive run has ended with a folder left and has printed it.
C29_Witness ==
    /\ rc.pc = "done"
    /\ rc.ran = ThreePasses
    /\ ~rc.auto
    /\ rc.leftovers # {}
    /\ Reported(rc.leftovers)

\* ---------------------------------------------------------------------
\* The step that ends a pass: leftovers = get_folders(manager).
PassEnds == rc.pc \in {"installing", "selected"} /\ rc'.pc \in {"match", "report"}

\* Selection n of the pass was installed.
Installed(n) ==
    /\ rc.pc = "installing"
    /\ n \in Idx
    /\ ops[n].outcome.type = "PkgInstalled"

ReconcileRuns == rc.pc \in {"idle", "done"} /\ rc' # rc

NoTable(echoed) == \A n \in 1..Len(echoed) : echoed[n].text # "unreconciled"

\* C31.  A reconciliation run when no folder is unowned ends at once: no
\* pass runs, so nothing is resolved, nothing is installed, the database,
\* the add-on directory and the trash are as they were, and no unreconciled
\* folder is reported; this holds for a first run and for a run that
\* follows another.
C31_NothingUnownedIsNoOp ==
    [][(ReconcileRuns /\ Unowned(OnDisk) = {})
         => /\ rc'.pc = "done"
            /\ rc'.ran = <<>>
            /\ rc'.selections = <<>>
            /\ rc'.leftovers = {}
            /\ NoTable(rc'.echoed)
            /\ EngineUntouched
            /\ ops' = <<>> /\ mode' = "idle"]_vars

\* A run has ended at once after an earlier run had installed a package
\* and left nothing unowned.
C31_Witness ==
    /\ rc.pc = "done"
    /\ rc.ran = <<>>
    /\ db # {}
    /\ OnDisk # {}
    /\ rc.echoed = <<echo("No add-ons left to reconcile.", {})>>

\* ---------------------------------------------------------------------
SetsOf(sets) == {sets[n] : n \in 1..Len(sets)}

\* The elements a chain of overlapping sets of the collection links to the
\* elements already reached.
RECURSIVE LinkedTo(_, _)
LinkedTo(reached, sets) ==
    LET more == reached \cup UNION {S \in SetsOf(sets) : S \cap reached # {}}
    IN IF more = reached THEN reached ELSE LinkedTo(more, sets)

\* The collection in another order.
Reordered(sets, order) == [n \in 1..Len(sets) |-> sets[order[n]]]

\* C32.  merge_intersecting_sets returns sets that are pairwise disjoint,
\* whose union is the union of the sets given, and in which two elements
\* are together exactly when a chain of overlapping given sets links them;
\* the sets returned are the same for every order of the collection; and
\* [{a},{b,c},{a,d},{e},{c,f},{g,a}] gives {a,d,g}, {b,c,f}, {e}.
C32_MergedSetsAreComponents ==
    /\ collection.pc = "done"
       => LET given == collection.given
              merged == collection.merged
          IN /\ \A i \in 1..Len(merged) : \A j \in 1..Len(merged) :
                  i # j => merged[i] \cap merged[j] = {}
             /\ UNION SetsOf(merged) = UNION SetsOf(given)
             /\ \A x \in UNION SetsOf(given) : \A y \in UNION SetsOf(given) :
                  (\E S \in SetsOf(merged) : x \in S /\ y \in S)
                  <=> y \in LinkedTo({x}, given)
             /\ \A order \in Permutations(1..Len(given)) :
                  SetsOf(merge_intersecting_sets(Reordered(given, order)))
                      = SetsOf(merged)
    /\ SetsOf(merge_intersecting_sets(
           <<{"a"}, {"b", "c"}, {"a", "d"}, {"e"}, {"c", "f"}, {"g", "a"}>>))
           = {{"a", "d", "g"}, {"b", "c", "f"}, {"e"}}

\* Three sets were given of which the first overlaps the second only
\* through the third, and one set was returned.
C32_Witness ==
    /\ collection.pc = "done"
    /\ Len(collection.given) = 3
    /\ collection.given[1] \cap collection.given[2] = {}
    /\ collection.given[1] \cap collection.given[3] # {}
    /\ collection.given[2] \cap collection.given[3] # {}
    /\ Len(collection.merged) = 1

\* ---------------------------------------------------------------------
\* Operation i has read the folder rows (its conflict check, or the folders
\* of the package it removes) and has not yet ended.
CheckedNotEnded(i) ==
    \/ ops[i].kind = "install" /\ ops[i].pc \in {"trash", "extract", "commit"}
    \/ ops[i].kind = "update"
         /\ ops[i].pc \in {"trash", "delete", "extract", "add", "finally"}
    \/ ops[i].kind = "remove" /\ ops[i].pc \in {"trash", "delete"}

\* The folders operation i works on.
FoldersOf(i) ==
    (IF ops[i].cur # NoRow THEN RowFolders(ops[i].cur) ELSE {})
    \cup (IF ops[i].pkg # NoRel THEN root_folders(ops[i].pkg) ELSE {})

\* C33.  While an operation is between its read of the folder rows and its
\* own commit, no other operation on an overlapping set of folders trashes,
\* extracts or commits.
C33_CheckToCommitNotInterleaved ==
    [][\A i \in Idx : \A j \in Idx :
         (/\ i # j
          /\ CheckedNotEnded(i)
          /\ StepOf(j)
          /\ engine' # engine)
         => FoldersOf(i) \cap FoldersOf(j) = {}]_vars

\* ---------------------------------------------------------------------
\* Two installs of one run whose references resolved to the same package:
\* both passed the already-installed check of to_install.
SamePackageInstalls(i, j) ==
    /\ i # j
    /\ ops[i].kind = "install" /\ ops[j].kind = "install"
    /\ ops[i].pkg # NoRel /\ ops[j].pkg # NoRel
    /\ Key(ops[i].pkg) = Key(ops[j].pkg)

\* C34.  The database never holds two rows for one package; of two installs
\* of the same package submitted together, at most one ends in Installed
\* and then the other ends in an error of the ManagerError taxonomy.
C34_OneRowPerPackage ==
    /\ \A r1, r2 \in db : r1 # r2 => RowKey(r1) # RowKey(r2)
    /\ \A i \in Idx : \A j \in Idx :
         (/\ SamePackageInstalls(i, j)
          /\ Done(i) /\ Done(j)
          /\ ops[i].outcome.type = "PkgInstalled")
         => ops[j].outcome.type \notin {"PkgInstalled", "Exception"}

C34_Witness ==
    \E i \in Idx : \E j \in Idx :
        /\ SamePackageInstalls(i, j)
        /\ Done(i) /\ Done(j)
        /\ ops[i].outcome.type = "PkgInstalled"
        /\ ops[j].outcome.type = "PkgConflictsWithInstalled"

\* ---------------------------------------------------------------------
\* The bars that are open, and the positions no open bar holds.
OpenBars == {k \in 1..Len(slots.bars) : ~slots.bars[k].closed}

Held(p) == \E k \in OpenBars : slots.bars[k].position = p

\* C35.  A new bar gets the smallest position no open bar holds and its
\* slot is marked occupied; closing a bar frees its own slot and no other;
\* no two open bars ever share a position, and a slot is flagged exactly
\* when an open bar holds it.
C35_SmallestFreeSlot ==
    /\ [](\A k \in OpenBars : \A l \in OpenBars :
             k # l => slots.bars[k].position # slots.bars[l].position)
    /\ [](\A i \in 1..Len(slots.bar_positions) :
             slots.bar_positions[i] <=> Held(i - 1))
    /\ [][Len(slots.bars') > Len(slots.bars) =>
             LET new == slots.bars'[Len(slots.bars')] IN
             /\ ~Held(new.position)
             /\ \A p \in 0..(new.position - 1) : Held(p)
             /\ slots.bar_positions'[new.position + 1]]_vars
    /\ [][\A k \in OpenBars :
             slots.bars'[k].closed =>
                 /\ Len(slots.bar_positions') = Len(slots.bar_positions)
                 /\ \A i \in 1..Len(slots.bar_positions) :
                        slots.bar_positions'[i] =
                            IF i = slots.bars[k].position + 1 THEN FALSE
                            ELSE slots.bar_positions[i]]_vars

\* A closed bar's slot was given to a later bar while a bar opened in
\* between still holds a higher position.
C35_Witness ==
    \E k \in 1..Len(slots.bars) : \E l \in OpenBars : \E m \in OpenBars :
        /\ k < l /\ l < m
        /\ slots.bars[k].closed
        /\ slots.bars[m].position = slots.bars[k].position
        /\ slots.bars[l].position > slots.bars[k].position

\* ---------------------------------------------------------------------
\* The top-level directories an archive creates: the first component of
\* every directory entry and of every file below a directory.
CreatesDirectory(p) == \E i \in 1..Len(p) : IsSeparator(p[i])

TopLevelDirectories(namelist) == {p[1] : p \in {q \in namelist : CreatesDirectory(q)}}

\* C36.  The root folders of an opened archive, and the folders recorded
\* for the package, are the top-level directories the archive creates,
\* without files at the archive root and without __MACOSX.
C36_RootFoldersAreDirectories ==
    /\ archive.pc # "idle" =>
           archive.root_folders = TopLevelDirectories(archive.namelist) \ {"__MACOSX"}
    /\ archive.pc = "recorded" =>
           archive.folders = TopLevelDirectories(archive.namelist) \ {"__MACOSX"}

====
